---- MODULE Spec2Model ----
(***************************************************************************)
(* Model of the chunked parallel file processor of qpx                     *)
(* (src/qpx/core/maxquant/maxquant.py): MaxQuant._parallel_process_file,   *)
(* the per-chunk workers it dispatches to a process pool, and the          *)
(* protein-group wrapper MaxQuant._process_pg_file_parallel that shares a  *)
(* protein-group -> sample mapping with the workers through a file.        *)
(***************************************************************************)
EXTENDS Integers, Sequences, FiniteSets, TLC

(***************************************************************************)
(* Bounds of the model.                                                    *)
(***************************************************************************)
MaxRows == 3
MaxChunkSize == 2
MaxWorkers == 2

(***************************************************************************)
(* Generic helpers.                                                        *)
(***************************************************************************)
Min(S) == CHOOSE m \in S : \A x \in S : m <= x

MinNat(a, b) == IF a <= b THEN a ELSE b

Range(s) == {s[i] : i \in 1..Len(s)}

SeqsUpTo(S, n) == UNION {[1..k -> S] : k \in 0..n}

(***************************************************************************)
(* Rows of the tab-delimited input.  v is the payload of the row, shape    *)
(* its field count relative to the header ("ok", "short" = fewer fields,   *)
(* "long" = more fields), poison marks a row on which the transform        *)
(* raises.  The first data row has the header's field count.               *)
(***************************************************************************)
RowKinds ==
  { [v |-> 1, shape |-> "ok",    poison |-> FALSE],
    [v |-> 2, shape |-> "ok",    poison |-> FALSE],
    [v |-> 1, shape |-> "short", poison |-> FALSE],
    [v |-> 2, shape |-> "long",  poison |-> FALSE],
    [v |-> 1, shape |-> "ok",    poison |-> TRUE],
    [v |-> 2, shape |-> "ok",    poison |-> TRUE] }

InputRows ==
  { s \in SeqsUpTo(RowKinds, MaxRows) : Len(s) > 0 => s[1].shape = "ok" }

\* An exception: its type, its argument, and the chunk index it carries
\* (NoChunk: the exception object holds no chunk index).
NoChunk == -1

NoExc == [type |-> "None", detail |-> 0, chunk |-> NoChunk]

Exc(t, d) == [type |-> t, detail |-> d, chunk |-> NoChunk]

(***************************************************************************)
(* pd.read_csv(..., chunksize=...) as the code uses it.                    *)
(***************************************************************************)
\* usecols is passed by the feature pipeline only
UseCols(k) == k = "feature"

\* the rows of the chunk that starts after row pos
ChunkSlice(rows, pos, size) == SubSeq(rows, pos + 1, MinNat(pos + size, Len(rows)))

\* (variant: a header-only file yields no chunk at all)
HasNextChunkRowsOnly(rows, pos, yielded) == pos < Len(rows)

\* the reader has one more chunk to yield: rows are left, or nothing was
\* yielded yet (a header-only file yields one empty chunk)
HasNextChunk(rows, pos, yielded) == pos < Len(rows) \/ (Len(rows) = 0 /\ yielded = 0)

\* a row with more fields than the header is a parser error, unless usecols
\* is given (the extra fields are then dropped)
ChunkParseError(rows, usecols) == ~usecols /\ \E i \in 1..Len(rows) : rows[i].shape = "long"

\* a row with fewer fields is padded with missing values
ParseRow(r) == [v |-> r.v, na |-> r.shape = "short", poison |-> r.poison]

ParseChunk(rows) == [i \in 1..Len(rows) |-> ParseRow(rows[i])]

(***************************************************************************)
(* The per-chunk worker (the transform is row-wise).                       *)
(***************************************************************************)
TransformRow(r) == [val |-> 10 * r.v, na |-> r.na]

TransformRaises(rows) == \E i \in 1..Len(rows) : rows[i].poison

FirstPoison(rows) == Min({i \in 1..Len(rows) : rows[i].poison})

WorkerExc(rows) == Exc("TransformError", rows[FirstPoison(rows)].v)

\* (variant: the result of a row depends on its position in the chunk)
TransformChunkPositional(rows) ==
  [i \in 1..Len(rows) |-> [val |-> 10 * rows[i].v + i, na |-> rows[i].na]]

\* (variant: a stage that drops the rows holding a missing value)
TransformChunkDropMissing(rows) ==
  LET Kept(r) == ~r.na
      kept == SelectSeq(rows, Kept)
  IN [i \in 1..Len(kept) |-> TransformRow(kept[i])]

TransformChunk(rows) == [i \in 1..Len(rows) |-> TransformRow(rows[i])]

\* (variant: the worker reports chunk 0 whatever chunk it was given)
ChunkResultFirstId(chunk_id, out) ==
  [id |-> 0, row_count |-> Len(out), file |-> chunk_id, exc |-> NoExc]

\* the triple (chunk_id, len(df_chunk), temp_output) a worker returns
ChunkResult(chunk_id, out) ==
  [id |-> chunk_id, row_count |-> Len(out), file |-> chunk_id, exc |-> NoExc]

NoResult == [id |-> -1, row_count |-> 0, file |-> -1, exc |-> NoExc]

(***************************************************************************)
(* processed_files: a dict, kept as its items in insertion order.          *)
(***************************************************************************)
DictKeys(d) == {d[i].key : i \in 1..Len(d)}

DictGet(d, k) == d[CHOOSE i \in 1..Len(d) : d[i].key = k].file

DictSet(d, k, f) ==
  IF k \in DictKeys(d)
  THEN [i \in 1..Len(d) |-> IF d[i].key = k THEN [key |-> k, file |-> f] ELSE d[i]]
  ELSE Append(d, [key |-> k, file |-> f])

RECURSIVE SortedKeys(_)
SortedKeys(S) == IF S = {} THEN <<>> ELSE <<Min(S)>> \o SortedKeys(S \ {Min(S)})

\* (variant: the dict's own iteration order, i.e. completion order)
MergeOrderInsertion(d) == [i \in 1..Len(d) |-> d[i].key]

\* the order in which the merge loop visits processed_files
MergeOrder(d) == SortedKeys(DictKeys(d))

(***************************************************************************)
(* ParquetBatchWriter (qpx.utils.file_utils).                              *)
(***************************************************************************)
NoFile == [exists |-> FALSE, rows |-> <<>>]

WriterOpen == [exists |-> TRUE, rows |-> <<>>]

WriteBatch(f, rows) == [exists |-> TRUE, rows |-> f.rows \o rows]

(***************************************************************************)
(* The protein-group -> sample mapping shared with the workers.            *)
(* A file name is kept as the part before its first dot and the rest; a    *)
(* protein-group ids cell as the list of its ";"-separated pieces (the     *)
(* empty list is a null cell).                                             *)
(***************************************************************************)
Name(stem, ext) == [stem |-> stem, ext |-> ext]

NullName == Name("", "")

\* self._sample_map: file key -> sample accession
SdrfSampleMap == [k \in {"R1"} |-> Name("S1", "")]

\* file_key = raw.split(".")[0]; sample = map.get(file_key), else the raw file
SampleOfRaw(raw) ==
  IF raw.stem \in DOMAIN SdrfSampleMap THEN SdrfSampleMap[raw.stem] ELSE raw

\* str.strip() on the pieces the model uses
Strip(t) ==
  CASE t = " 5" -> "5"
    [] t = " B " -> "B"
    [] OTHER -> t

\* the ids cell holds one whole number
NumericCell(ids) == Len(ids) = 1 /\ ids[1] \in {"5", "7"}

\* the dtype read_csv infers for "Protein group IDs" over one chunk
IdsDtype(chunk) ==
  IF \E i \in 1..Len(chunk) : chunk[i].ids # <<>> /\ ~NumericCell(chunk[i].ids)
  THEN "object"
  ELSE IF \E i \in 1..Len(chunk) : chunk[i].ids = <<>> THEN "float64"
  ELSE "int64"

\* str() of a float64 that holds a whole number
FloatStr(t) == IF t = "5" THEN "5.0" ELSE "7.0"

\* chunk["Protein group IDs"].astype(str).str.split(";")
IdsAsStr(ids, dtype) == IF dtype = "float64" THEN <<FloatStr(ids[1])>> ELSE ids

EvidencePairs(ev) ==
  { pr \in UNION { { <<Strip(IdsAsStr(ev[i].ids, IdsDtype(ev))[j]),
                       SampleOfRaw(ev[i].raw)>> :
                       j \in 1..Len(ev[i].ids) } :
                   i \in {n \in 1..Len(ev) : ev[n].raw # NullName /\ ev[n].ids # <<>>} } :
      pr[1] \notin {"", "nan"} }

\* the mapping one chunk of evidence.txt contributes
ChunkMapping(chunk) ==
  LET pairs == EvidencePairs(chunk)
  IN [p \in {pr[1] : pr \in pairs} |-> {pr[2] : pr \in {q \in pairs : q[1] = p}}]

\* protein_to_samples[protein_id].update(...)
UpdateMapping(m, c) ==
  [p \in DOMAIN m \cup DOMAIN c |->
     (IF p \in DOMAIN m THEN m[p] ELSE {}) \cup
     (IF p \in DOMAIN c THEN c[p] ELSE {})]

\* _build_protein_to_samples_mapping on a table that fits one read chunk
\* (chunksize=500000)
BuildProteinToSamples(ev) == ChunkMapping(ev)

EmptyMapping == [p \in {} |-> {}]

\* the lists list(v) can produce for a set v
ListsOf(S) == {s \in [1..Cardinality(S) -> S] : Range(s) = S}

\* {k: list(v)} as json.dump may write it
JsonOfMapping(m) ==
  {f \in [DOMAIN m -> UNION {ListsOf(m[p]) : p \in DOMAIN m}] :
     \A p \in DOMAIN m : f[p] \in ListsOf(m[p])}

\* (variant: only the first sample of each list is kept)
LoadMappingFirst(data) == [p \in DOMAIN data |-> {data[p][1]}]

\* {k: set(v)} from json.load
LoadMapping(data) == [p \in DOMAIN data |-> Range(data[p])]

NoMappingFile == [exists |-> FALSE, data |-> EmptyMapping]

NotLoaded == [ok |-> FALSE, map |-> EmptyMapping]

\* what a protein-group worker does with evidence_mapping_file
WorkerMapping(mf) == [ok |-> TRUE, map |-> LoadMapping(mf.data)]

Evidences ==
  { <<>>,
    << [raw |-> Name("R1", ""), ids |-> <<"5", "7">>],
       [raw |-> Name("R1", ""), ids |-> <<"5">>] >>,
    << [raw |-> Name("R1", ""), ids |-> <<"5">>],
       [raw |-> Name("R2", "d"), ids |-> <<" 5", "">>],
       [raw |-> NullName, ids |-> <<"7">>] >> }

MaxPgRows == 2

PgRowKinds == {r \in RowKinds : r.shape # "short" /\ (r.poison => r.v = 1)}

VARIABLES
  kind,             \* "psm", "feature" or "pg": the pipeline that calls
  input,            \* the input file: [exists, rows]
  chunksize,
  n_workers,
  outBefore,        \* the file at output_path before the call
  output,           \* the file at output_path
  tempDir,          \* temp_folder exists
  chunkFiles,       \* temp_chunk_<id>.parquet files: id -> rows
  procFiles,        \* temp_processed_<id>.parquet files: id -> rows
  chunk_files,      \* list of (temp_chunk_file, chunk_id) task arguments
  readPos,          \* rows consumed by the chunk reader
  pc,               \* position of the coordinator
  task,             \* state of each submitted future
  runs,             \* how many times each future's task was started
  result,           \* what each future holds
  collected,        \* futures the as_completed loop has consumed
  processed_files,
  total_rows,
  mergeQueue,       \* keys the merge loop still has to write
  raised,           \* exception propagating out of the call
  errlog,           \* logger.error records: [chunk, cause]
  startedAfterError, \* futures started after the coordinator saw an error
  evidence,         \* the rows of evidence.txt (protein-group runs)
  calcStd,          \* calculate_standardized_intensities
  protein_to_samples, \* the coordinator's mapping
  mappingFile,      \* .temp_pg_mapping_<stem>.json
  intensitiesFile,  \* .temp_pg_intensities_<stem>.json exists
  buildCount,       \* calls of _build_protein_to_samples_mapping so far
  mappingWrites,    \* times the mapping file was opened for writing
  loaded,           \* the mapping each worker task loaded
  protein_file,     \* a protein-groups file is passed to the feature workers
  qvalueParses,     \* calls of _init_protein_group_qvalue_mapping so far
  fnArg,            \* argument of the function under study
  fnRet             \* what the function returned

vars == <<kind, input, chunksize, n_workers, outBefore, output, tempDir,
          chunkFiles, procFiles, chunk_files, readPos, pc, task, runs, result,
          collected, processed_files, total_rows, mergeQueue, raised, errlog,
          startedAfterError, evidence, calcStd, protein_to_samples, mappingFile,
          intensitiesFile, buildCount, mappingWrites, loaded, protein_file,
          qvalueParses, fnArg, fnRet>>

callerVars == <<kind, input, chunksize, n_workers, outBefore, protein_file>>

inputVars == <<callerVars, fnArg, fnRet>>

diskVars == <<output, tempDir, chunkFiles, procFiles>>

poolVars == <<task, runs, result, startedAfterError, loaded, qvalueParses>>

pgVars == <<evidence, calcStd, protein_to_samples, mappingFile, intensitiesFile,
            buildCount, mappingWrites>>

coordVars == <<chunk_files, readPos, collected, processed_files, total_rows,
               mergeQueue, raised, errlog>>

EmptyFn == [x \in {} |-> <<>>]

Handles == 1..Len(task)

Finished(k) == task[k] \in {"done", "error"}

(***************************************************************************)
(* MaxQuant._parallel_process_file                                         *)
(***************************************************************************)
InitCommon ==
  /\ input \in {[exists |-> FALSE, rows |-> <<>>]}
               \cup {[exists |-> TRUE, rows |-> r] : r \in InputRows}
  /\ chunksize \in 1..MaxChunkSize
  /\ n_workers \in 1..MaxWorkers
  /\ outBefore \in {NoFile, [exists |-> TRUE, rows |-> <<[val |-> 0, na |-> FALSE]>>]}
  /\ output = outBefore
  /\ tempDir = FALSE
  /\ chunkFiles = EmptyFn
  /\ procFiles = EmptyFn
  /\ chunk_files = <<>>
  /\ readPos = 0
  /\ task = <<>>
  /\ runs = <<>>
  /\ result = <<>>
  /\ collected = {}
  /\ processed_files = <<>>
  /\ total_rows = 0
  /\ mergeQueue = <<>>
  /\ raised = NoExc
  /\ errlog = <<>>
  /\ startedAfterError = {}
  /\ protein_to_samples = EmptyMapping
  /\ mappingFile = NoMappingFile
  /\ intensitiesFile = FALSE
  /\ buildCount = 0
  /\ mappingWrites = 0
  /\ loaded = <<>>
  /\ qvalueParses = 0
  /\ fnArg = 0
  /\ fnRet = 0

Init ==
  /\ kind \in {"psm", "feature"}
  /\ protein_file = FALSE
  /\ pc = "mkdir"
  /\ evidence = <<>>
  /\ calcStd = FALSE
  /\ InitCommon

\* temp_folder.mkdir(exist_ok=True)
Mkdir ==
  /\ pc = "mkdir"
  /\ tempDir' = TRUE
  /\ pc' = "read"
  /\ UNCHANGED <<inputVars, pgVars, output, chunkFiles, procFiles, poolVars, coordVars>>

\* pd.read_csv cannot open the input
ReadOpenError ==
  /\ pc = "read"
  /\ ~input.exists
  /\ raised' = Exc("FileNotFoundError", 0)
  /\ pc' = "cleanup"
  /\ UNCHANGED <<inputVars, pgVars, diskVars, poolVars, chunk_files, readPos, collected,
                 processed_files, total_rows, mergeQueue, errlog>>

\* one iteration of the read loop: the chunk is saved and its task recorded
ReadChunk ==
  /\ pc = "read"
  /\ input.exists
  /\ HasNextChunk(input.rows, readPos, Len(chunk_files))
  /\ LET rows == ChunkSlice(input.rows, readPos, chunksize)
         chunk_id == Len(chunk_files)
     IN /\ ~ChunkParseError(rows, UseCols(kind))
        /\ chunkFiles' = (chunk_id :> ParseChunk(rows)) @@ chunkFiles
        /\ chunk_files' = Append(chunk_files, [file |-> chunk_id, id |-> chunk_id])
        /\ readPos' = readPos + Len(rows)
  /\ UNCHANGED <<inputVars, pgVars, output, tempDir, procFiles, poolVars, pc, collected,
                 processed_files, total_rows, mergeQueue, raised, errlog>>

\* (variant: the reader stops at the bad row and the rows read so far are
\* processed as if the file ended there)
ReadParseErrorTruncate ==
  /\ pc = "read"
  /\ input.exists
  /\ HasNextChunk(input.rows, readPos, Len(chunk_files))
  /\ ChunkParseError(ChunkSlice(input.rows, readPos, chunksize), UseCols(kind))
  /\ task' = [k \in 1..Len(chunk_files) |-> "pending"]
  /\ runs' = [k \in 1..Len(chunk_files) |-> 0]
  /\ result' = [k \in 1..Len(chunk_files) |-> NoResult]
  /\ loaded' = [k \in 1..Len(chunk_files) |-> NotLoaded]
  /\ pc' = "collect"
  /\ UNCHANGED <<inputVars, pgVars, diskVars, coordVars, startedAfterError,
                 qvalueParses>>

\* the reader raises on the chunk that holds a row with too many fields
ReadParseError ==
  /\ pc = "read"
  /\ input.exists
  /\ HasNextChunk(input.rows, readPos, Len(chunk_files))
  /\ ChunkParseError(ChunkSlice(input.rows, readPos, chunksize), UseCols(kind))
  /\ raised' = Exc("ParserError", 0)
  /\ pc' = "cleanup"
  /\ UNCHANGED <<inputVars, pgVars, diskVars, poolVars, chunk_files, readPos, collected,
                 processed_files, total_rows, mergeQueue, errlog>>

\* the reader is exhausted; every chunk is submitted to the pool
Submit ==
  /\ pc = "read"
  /\ input.exists
  /\ ~HasNextChunk(input.rows, readPos, Len(chunk_files))
  /\ task' = [k \in 1..Len(chunk_files) |-> "pending"]
  /\ runs' = [k \in 1..Len(chunk_files) |-> 0]
  /\ result' = [k \in 1..Len(chunk_files) |-> NoResult]
  /\ loaded' = [k \in 1..Len(chunk_files) |-> NotLoaded]
  /\ pc' = "collect"
  /\ UNCHANGED <<inputVars, pgVars, diskVars, coordVars, startedAfterError,
                 qvalueParses>>

\* the pool hands the oldest waiting task to a free worker process; it goes
\* on doing so while the executor shuts down with wait=True
StartTask(k) ==
  /\ pc \in {"collect", "drain"}
  /\ k \in Handles
  /\ task[k] = "pending"
  /\ \A j \in Handles : j < k => task[j] # "pending"
  /\ Cardinality({j \in Handles : task[j] = "running"}) < n_workers
  /\ task' = [task EXCEPT ![k] = "running"]
  /\ runs' = [runs EXCEPT ![k] = @ + 1]
  /\ startedAfterError' = IF pc = "drain" THEN startedAfterError \cup {k}
                          ELSE startedAfterError
  /\ UNCHANGED <<inputVars, pgVars, diskVars, coordVars, pc, result, loaded,
                 qvalueParses>>

\* _process_feature_chunk parses the protein-groups file into a q-value
\* table whenever protein_file is given; the other workers never do
WorkerQvalueParses(k, pf) == IF k = "feature" /\ pf THEN 1 ELSE 0

\* the worker function on its chunk: read, transform, write, return
RunTask(k) ==
  /\ pc \in {"collect", "drain"}
  /\ k \in Handles
  /\ task[k] = "running"
  /\ qvalueParses' = qvalueParses + WorkerQvalueParses(kind, protein_file)
  /\ LET args == chunk_files[k]
         rows == chunkFiles[args.file]
     IN IF kind = "pg" /\ ~mappingFile.exists
        THEN /\ task' = [task EXCEPT ![k] = "error"]
             /\ result' = [result EXCEPT ![k] = [NoResult EXCEPT !.exc = Exc("FileNotFoundError", 0)]]
             /\ UNCHANGED <<procFiles, loaded>>
        ELSE /\ loaded' = IF kind = "pg"
                          THEN [loaded EXCEPT ![k] = WorkerMapping(mappingFile)]
                          ELSE loaded
             /\ IF TransformRaises(rows)
                THEN /\ task' = [task EXCEPT ![k] = "error"]
                     /\ result' = [result EXCEPT ![k] = [NoResult EXCEPT !.exc = WorkerExc(rows)]]
                     /\ UNCHANGED procFiles
                ELSE /\ task' = [task EXCEPT ![k] = "done"]
                     /\ procFiles' = (args.id :> TransformChunk(rows)) @@ procFiles
                     /\ result' = [result EXCEPT ![k] = ChunkResult(args.id, TransformChunk(rows))]
  /\ UNCHANGED <<inputVars, pgVars, output, tempDir, chunkFiles, coordVars, pc, runs,
                 startedAfterError>>

\* as_completed yields a future that holds a result
CollectResult(k) ==
  /\ pc = "collect"
  /\ k \in Handles \ collected
  /\ task[k] = "done"
  /\ processed_files' = DictSet(processed_files, result[k].id, result[k].file)
  /\ total_rows' = total_rows + result[k].row_count
  /\ collected' = collected \cup {k}
  /\ UNCHANGED <<inputVars, pgVars, diskVars, poolVars, pc, chunk_files, readPos,
                 mergeQueue, raised, errlog>>

\* (variant: the failing chunk is logged and skipped)
CollectErrorSkip(k) ==
  /\ pc = "collect"
  /\ k \in Handles \ collected
  /\ task[k] = "error"
  /\ errlog' = Append(errlog, [chunk |-> chunk_files[k].id, cause |-> result[k].exc])
  /\ collected' = collected \cup {k}
  /\ UNCHANGED <<inputVars, pgVars, diskVars, poolVars, pc, chunk_files, readPos,
                 processed_files, total_rows, mergeQueue, raised>>

\* (variant: the writer is opened for the chunks collected so far before
\* the exception is re-raised)
CollectErrorOpenWriter(k) ==
  /\ pc = "collect"
  /\ k \in Handles \ collected
  /\ task[k] = "error"
  /\ errlog' = Append(errlog, [chunk |-> chunk_files[k].id, cause |-> result[k].exc])
  /\ raised' = result[k].exc
  /\ collected' = collected \cup {k}
  /\ output' = WriterOpen
  /\ pc' = "drain"
  /\ UNCHANGED <<inputVars, pgVars, tempDir, chunkFiles, procFiles, poolVars,
                 chunk_files, readPos, processed_files, total_rows, mergeQueue>>

\* as_completed yields a future that holds an exception: log and re-raise
CollectError(k) ==
  /\ pc = "collect"
  /\ k \in Handles \ collected
  /\ task[k] = "error"
  /\ errlog' = Append(errlog, [chunk |-> chunk_files[k].id, cause |-> result[k].exc])
  /\ raised' = result[k].exc
  /\ collected' = collected \cup {k}
  /\ pc' = "drain"
  /\ UNCHANGED <<inputVars, pgVars, diskVars, poolVars, chunk_files, readPos,
                 processed_files, total_rows, mergeQueue>>

\* the with-block exits on the exception: shutdown(wait=True) returns when
\* every submitted task has finished
DrainDone ==
  /\ pc = "drain"
  /\ \A k \in Handles : Finished(k)
  /\ pc' = "cleanup"
  /\ UNCHANGED <<inputVars, pgVars, diskVars, poolVars, coordVars>>

\* all futures consumed: read the first processed file and open the writer
MergeOpen ==
  /\ pc = "collect"
  /\ collected = Handles
  /\ IF processed_files = <<>>
     THEN /\ raised' = Exc("ValueError", 0)
          /\ pc' = "cleanup"
          /\ UNCHANGED <<output, mergeQueue>>
     ELSE /\ output' = WriterOpen
          /\ mergeQueue' = MergeOrder(processed_files)
          /\ pc' = "merge"
          /\ UNCHANGED raised
  /\ UNCHANGED <<inputVars, pgVars, tempDir, chunkFiles, procFiles, poolVars, chunk_files,
                 readPos, collected, processed_files, total_rows, errlog>>

\* reading the first processed file fails before the writer exists
MergeFirstReadError ==
  /\ pc = "collect"
  /\ collected = Handles
  /\ processed_files # <<>>
  /\ raised' = Exc("MergeError", Min(DictKeys(processed_files)))
  /\ pc' = "cleanup"
  /\ UNCHANGED <<inputVars, pgVars, diskVars, poolVars, chunk_files, readPos, collected,
                 processed_files, total_rows, mergeQueue, errlog>>

\* one iteration of the merge loop
MergeWrite ==
  /\ pc = "merge"
  /\ mergeQueue # <<>>
  /\ output' = WriteBatch(output, procFiles[DictGet(processed_files, Head(mergeQueue))])
  /\ mergeQueue' = Tail(mergeQueue)
  /\ UNCHANGED <<inputVars, pgVars, tempDir, chunkFiles, procFiles, poolVars, pc,
                 chunk_files, readPos, collected, processed_files, total_rows,
                 raised, errlog>>

\* an iteration of the merge loop raises; the finally clause closes the writer
MergeError ==
  /\ pc = "merge"
  /\ mergeQueue # <<>>
  /\ raised' = Exc("MergeError", Head(mergeQueue))
  /\ pc' = "cleanup"
  /\ UNCHANGED <<inputVars, pgVars, diskVars, poolVars, chunk_files, readPos, collected,
                 processed_files, total_rows, mergeQueue, errlog>>

\* the merge loop is over; the finally clause closes the writer
MergeClose ==
  /\ pc = "merge"
  /\ mergeQueue = <<>>
  /\ pc' = "cleanup"
  /\ UNCHANGED <<inputVars, pgVars, diskVars, poolVars, coordVars>>

\* (variant: the temporary folder is removed on the success path only)
CleanupOnSuccess ==
  /\ pc = "cleanup"
  /\ tempDir' = (raised # NoExc)
  /\ chunkFiles' = IF raised = NoExc THEN EmptyFn ELSE chunkFiles
  /\ procFiles' = IF raised = NoExc THEN EmptyFn ELSE procFiles
  /\ pc' = IF raised = NoExc THEN "done" ELSE "failed"
  /\ UNCHANGED <<inputVars, pgVars, output, poolVars, coordVars>>

\* outer finally: shutil.rmtree(temp_folder) if it exists, then return or raise
Cleanup ==
  /\ pc = "cleanup"
  /\ tempDir' = FALSE
  /\ chunkFiles' = EmptyFn
  /\ procFiles' = EmptyFn
  /\ pc' = IF raised = NoExc THEN "done" ELSE "failed"
  /\ UNCHANGED <<inputVars, pgVars, output, poolVars, coordVars>>

Next ==
  \/ Mkdir
  \/ ReadOpenError
  \/ ReadChunk
  \/ ReadParseError
  \/ Submit
  \/ \E k \in 1..(MaxRows + 1) : StartTask(k)
  \/ \E k \in 1..(MaxRows + 1) : RunTask(k)
  \/ \E k \in 1..(MaxRows + 1) : CollectResult(k)
  \/ \E k \in 1..(MaxRows + 1) : CollectError(k)
  \/ DrainDone
  \/ MergeOpen
  \/ MergeFirstReadError
  \/ MergeWrite
  \/ MergeError
  \/ MergeClose
  \/ Cleanup

Spec == Init /\ [][Next]_vars

(***************************************************************************)
(* Properties of _parallel_process_file.                                   *)
(***************************************************************************)
Returned == pc \in {"done", "failed"}

\* the coordinator saw a worker exception
WorkerFailed == errlog # <<>>

\* the rows of the chunk with index id, as the reader cuts the input
RowsOfChunk(id) == ParseChunk(ChunkSlice(input.rows, id * chunksize, chunksize))

\* the input rows, each read and transformed on its own
ExpectedRows(rows) == [i \in 1..Len(rows) |-> TransformRow(ParseRow(rows[i]))]

StrictlyAscending(q) == \A i, j \in 1..Len(q) : i < j => q[i] < q[j]

\* C1: whatever the completion order, the merge writes the processed chunks
\* in ascending chunk_index order: during the merge every chunk already
\* written has a smaller index than every chunk still to write, the output is
\* the transformed prefix of the input, and at the end the output rows are
\* the input rows in input order.
C1_MergeAscending ==
  /\ pc = "merge" =>
       LET written == DictKeys(processed_files) \ Range(mergeQueue)
       IN /\ StrictlyAscending(mergeQueue)
          /\ \A w \in written : \A q \in Range(mergeQueue) : w < q
          /\ output.rows =
               ExpectedRows(SubSeq(input.rows, 1,
                  MinNat(Cardinality(written) * chunksize, Len(input.rows))))
  /\ pc = "done" => output.rows = ExpectedRows(input.rows)

\* a run that finished although the chunks completed out of index order
C1_Witness ==
  /\ pc = "done"
  /\ Len(processed_files) >= 2
  /\ processed_files[1].key > processed_files[2].key
  /\ output.rows[1] # output.rows[Len(output.rows)]

\* what the call yields when the whole file is one chunk
WholeFileOutput(rows) == TransformChunk(ParseChunk(ChunkSlice(rows, 0, Len(rows))))

\* the input can be read and no row makes the transform raise
Convertible ==
  /\ input.exists
  /\ ~ChunkParseError(input.rows, UseCols(kind))
  /\ ~TransformRaises(input.rows)

C3_TempDirRemoved ==
  Returned =>
    /\ ~tempDir
    /\ chunkFiles = EmptyFn
    /\ procFiles = EmptyFn
    /\ \A k \in Handles : Finished(k)

\* an exit through a merge exception, after per-chunk files were written
C3_Witness ==
  /\ pc = "failed"
  /\ raised.type = "MergeError"
  /\ Len(chunk_files) >= 2
  /\ ~tempDir

C5_WorkerFailureLeavesNothing ==
  (Returned /\ WorkerFailed /\ ~outBefore.exists) =>
    /\ pc = "failed"
    /\ ~output.exists
    /\ ~tempDir

\* the middle chunk of three raised, the other two were processed, one of
\* them only after the coordinator had seen the exception
C5_Witness ==
  /\ pc = "failed"
  /\ ~outBefore.exists
  /\ Len(chunk_files) >= 3
  /\ WorkerFailed
  /\ errlog[1].chunk = 1
  /\ task[1] = "done"
  /\ task[3] = "done"
  /\ ~output.exists

\* C6 as claimed, in the case it names: a call that failed while the merge
\* was writing chunks, after a chunk had been written, left no partial
\* output: the output path holds what it held before the call.
C6_NoPartialOutput ==
  (pc = "failed" /\ raised.type = "MergeError" /\ Len(mergeQueue) < Len(processed_files))
    => output = outBefore

\* C7 as claimed: once the coordinator has seen a worker exception no task
\* that had not started is started.
C7_PendingWorkAborted == startedAfterError = {}

\* the number of chunks the reader yields for the input
ChunkCount(n, size) == IF n = 0 THEN 1 ELSE (n + size - 1) \div size

\* C8: the chunk indices are 0..N-1 in read order, one task per index; a task
\* is started at most once and a finished one exactly once; the triple of a
\* task carries its own chunk index, row count and file; after a successful
\* collection processed_files has exactly the keys 0..N-1, one file per key.
C8_OneTaskPerChunk ==
  /\ \A k \in 1..Len(chunk_files) :
       /\ chunk_files[k].id = k - 1
       /\ chunk_files[k].file \in DOMAIN chunkFiles \/ ~tempDir
  /\ task # <<>> =>
       /\ Len(task) = Len(chunk_files)
       /\ Len(chunk_files) = ChunkCount(Len(input.rows), chunksize)
  /\ \A k \in Handles :
       /\ runs[k] <= 1
       /\ (task[k] = "pending") <=> (runs[k] = 0)
       /\ task[k] = "done" =>
            /\ result[k].id = chunk_files[k].id
            /\ result[k].row_count = Len(RowsOfChunk(k - 1))
            /\ result[k].file = chunk_files[k].id
  /\ pc \in {"merge", "done"} =>
       /\ DictKeys(processed_files) = 0..(Len(chunk_files) - 1)
       /\ Len(processed_files) = Len(chunk_files)
       /\ \A i \in 1..Len(processed_files) :
            processed_files[i].file = processed_files[i].key
       /\ total_rows = Len(input.rows)

\* three chunks, three tasks, all collected and merged
C8_Witness ==
  /\ pc = "done"
  /\ Len(chunk_files) >= 3
  /\ \A k \in Handles : runs[k] = 1

\* the input has a defect the reader could report
InputDefect ==
  \/ ~input.exists
  \/ \E i \in 2..Len(input.rows) : input.rows[i].shape # "ok"

InitPG ==
  /\ kind = "pg"
  /\ protein_file = FALSE
  /\ pc = "pg_build"
  /\ evidence \in Evidences
  /\ calcStd \in BOOLEAN
  /\ InitCommon
  /\ input.exists => input.rows \in SeqsUpTo(PgRowKinds, MaxPgRows)

\* the coordinator builds the mapping from evidence.txt
PgBuild ==
  /\ pc = "pg_build"
  /\ protein_to_samples' = BuildProteinToSamples(evidence)
  /\ buildCount' = buildCount + 1
  /\ pc' = "pg_write"
  /\ UNCHANGED <<inputVars, diskVars, poolVars, coordVars, evidence, calcStd,
                 mappingFile, intensitiesFile, mappingWrites>>

\* the mapping (and the standardized intensities, if asked for) are dumped
PgWriteMapping ==
  /\ pc = "pg_write"
  /\ \E data \in JsonOfMapping(protein_to_samples) :
       mappingFile' = [exists |-> TRUE, data |-> data]
  /\ mappingWrites' = mappingWrites + 1
  /\ intensitiesFile' = calcStd
  /\ pc' = "mkdir"
  /\ UNCHANGED <<inputVars, diskVars, poolVars, coordVars, evidence, calcStd,
                 protein_to_samples, buildCount>>

\* dumping the mapping fails after open() created the file
PgWriteMappingError ==
  /\ pc = "pg_write"
  /\ mappingFile' = [exists |-> TRUE, data |-> EmptyMapping]
  /\ mappingWrites' = mappingWrites + 1
  /\ raised' = Exc("OSError", 0)
  /\ pc' = "pg_finally"
  /\ UNCHANGED <<inputVars, diskVars, poolVars, chunk_files, readPos, collected,
                 processed_files, total_rows, mergeQueue, errlog, evidence, calcStd,
                 protein_to_samples, intensitiesFile, buildCount>>

\* the mapping is written, dumping the intensities fails
PgWriteIntensitiesError ==
  /\ pc = "pg_write"
  /\ calcStd
  /\ \E data \in JsonOfMapping(protein_to_samples) :
       mappingFile' = [exists |-> TRUE, data |-> data]
  /\ mappingWrites' = mappingWrites + 1
  /\ intensitiesFile' = TRUE
  /\ raised' = Exc("OSError", 1)
  /\ pc' = "pg_finally"
  /\ UNCHANGED <<inputVars, diskVars, poolVars, chunk_files, readPos, collected,
                 processed_files, total_rows, mergeQueue, errlog, evidence, calcStd,
                 protein_to_samples, buildCount>>

\* (variant: the finally clause unlinks the mapping file only)
PgFinallyMappingOnly ==
  /\ kind = "pg"
  /\ pc \in {"done", "failed", "pg_finally"}
  /\ mappingFile' = NoMappingFile
  /\ pc' = IF raised = NoExc THEN "pg_done" ELSE "pg_failed"
  /\ UNCHANGED <<inputVars, diskVars, poolVars, coordVars, evidence, calcStd,
                 protein_to_samples, buildCount, mappingWrites, intensitiesFile>>

\* finally: unlink the mapping file and the intensities file
PgFinally ==
  /\ kind = "pg"
  /\ pc \in {"done", "failed", "pg_finally"}
  /\ mappingFile' = NoMappingFile
  /\ intensitiesFile' = FALSE
  /\ pc' = IF raised = NoExc THEN "pg_done" ELSE "pg_failed"
  /\ UNCHANGED <<inputVars, diskVars, poolVars, coordVars, evidence, calcStd,
                 protein_to_samples, buildCount, mappingWrites>>

NextPG ==
  \/ Next
  \/ PgBuild
  \/ PgWriteMapping
  \/ PgWriteMappingError
  \/ PgWriteIntensitiesError
  \/ PgFinally

SpecPG == InitPG /\ [][NextPG]_vars

(***************************************************************************)
(* MaxQuant._process_feature_file_parallel: the feature conversion, with   *)
(* or without a protein-groups file for the workers.                       *)
(***************************************************************************)
InitFeature ==
  /\ kind = "feature"
  /\ protein_file \in BOOLEAN
  /\ pc = "mkdir"
  /\ evidence = <<>>
  /\ calcStd = FALSE
  /\ InitCommon

\* the call passes usecols, so the reader drops surplus fields of a row and
\* never raises on them
NextFeature ==
  \/ Mkdir
  \/ ReadOpenError
  \/ ReadChunk
  \/ Submit
  \/ \E k \in 1..(MaxRows + 1) : StartTask(k)
  \/ \E k \in 1..(MaxRows + 1) : RunTask(k)
  \/ \E k \in 1..(MaxRows + 1) : CollectResult(k)
  \/ \E k \in 1..(MaxRows + 1) : CollectError(k)
  \/ DrainDone
  \/ MergeOpen
  \/ MergeFirstReadError
  \/ MergeWrite
  \/ MergeError
  \/ MergeClose
  \/ Cleanup

SpecFeature == InitFeature /\ [][NextFeature]_vars

\* C11 as claimed: the protein-groups file is parsed into a q-value table at
\* most once per conversion, however many chunks there are.
C11_QvalueTableBuiltOnce == qvalueParses <= 1

(***************************************************************************)
(* Properties of _process_pg_file_parallel.                                *)
(***************************************************************************)
\* the coordinator is inside _parallel_process_file
InParallelCall ==
  pc \in {"mkdir", "read", "collect", "drain", "merge", "cleanup", "done", "failed"}

\* C10: the mapping is built once, by the coordinator, and written once to
\* the shared file before any chunk task exists; while the parallel call
\* runs the file holds the coordinator's mapping; every worker that ran
\* loaded exactly that mapping, and no worker builds or writes it.
C10_MappingBuiltOnce ==
  /\ buildCount <= 1
  /\ mappingWrites <= 1
  /\ InParallelCall =>
       /\ buildCount = 1
       /\ mappingWrites = 1
       /\ mappingFile.exists
       /\ protein_to_samples = BuildProteinToSamples(evidence)
       /\ LoadMapping(mappingFile.data) = protein_to_samples
  /\ ~InParallelCall => task = <<>> \/ \A k \in Handles : Finished(k)
  /\ \A k \in Handles :
       /\ Finished(k) => loaded[k].ok
       /\ loaded[k].ok => loaded[k].map = BuildProteinToSamples(evidence)

\* two workers loaded a mapping in which one group has two samples
C10_Witness ==
  /\ Len(task) >= 2
  /\ \A k \in Handles : loaded[k].ok
  /\ \E p \in DOMAIN loaded[1].map : Cardinality(loaded[1].map[p]) = 2

\* C22: no pipeline drops or adds rows: the row_count a finished worker
\* returns, and the number of rows of the file it wrote, is the number of
\* rows of its input chunk; on success total_rows and the number of rows of
\* the merged output are the number of data rows of the input file.
C22_RowCountPreserved ==
  /\ \A k \in Handles :
       task[k] = "done" =>
         /\ result[k].row_count = Len(ChunkSlice(input.rows, (k - 1) * chunksize, chunksize))
         /\ tempDir => Len(procFiles[result[k].id]) = result[k].row_count
  /\ pc = "done" =>
       /\ total_rows = Len(input.rows)
       /\ Len(output.rows) = Len(input.rows)

\* a successful run over several chunks, one of them holding a short row
\* (a row with a missing value)
C22_Witness ==
  /\ pc = "done"
  /\ Len(chunk_files) >= 2
  /\ \E i \in 1..Len(input.rows) : input.rows[i].shape = "short"
  /\ Len(output.rows) = Len(input.rows)
  /\ Len(output.rows) >= 2

\* the input file has a header and no data row
HeaderOnly == input.exists /\ input.rows = <<>>

PgReturned == pc \in {"pg_done", "pg_failed"}

\* C30: once _process_pg_file_parallel has exited, neither the mapping file
\* nor the standardized-intensities file is on disk; and as long as a chunk
\* task is submitted and not finished both files are in place, so that no
\* worker fails for want of the mapping file.
C30_SharedFilesRemoved ==
  /\ PgReturned => ~mappingFile.exists /\ ~intensitiesFile
  /\ \A k \in Handles :
       /\ ~Finished(k) => mappingFile.exists /\ intensitiesFile = calcStd
       /\ Finished(k) => result[k].exc.type # "FileNotFoundError"

\* an exit after a worker failure, with both files written before
C30_Witness ==
  /\ pc = "pg_failed"
  /\ calcStd
  /\ mappingWrites = 1
  /\ Len(task) >= 2
  /\ WorkerFailed
  /\ ~mappingFile.exists /\ ~intensitiesFile
(***************************************************************************)
(* Cells of a data frame.  A cell is absent (its column is not in the      *)
(* frame), null (NaN / None), a number, a string or a list of strings.  A  *)
(* string is held as the list of its ";"-separated pieces: "" is <<"">>,   *)
(* "+" is <<"+">> and "A; B " is <<"A", " B ">>.                            *)
(***************************************************************************)
Cell(t, n, l) == [t |-> t, n |-> n, l |-> l]

Absent == Cell("absent", 0, <<>>)

Null == Cell("null", 0, <<>>)

Num(i) == Cell("num", i, <<>>)

Text(pieces) == Cell("str", 0, pieces)

Str(x) == Text(<<x>>)

List(q) == Cell("list", 0, q)

\* {"unique_sequences": 0, "total_sequences": 0}
ZeroCounts == Cell("struct", 0, <<>>)

\* every variable of the file processor, at rest while one function runs
processVars == <<input, chunksize, n_workers, outBefore, output, tempDir,
                 chunkFiles, procFiles, chunk_files, readPos, task, runs,
                 result, collected, processed_files, total_rows, mergeQueue,
                 raised, errlog, startedAfterError, evidence, calcStd,
                 protein_to_samples, mappingFile, intensitiesFile, buildCount,
                 mappingWrites, loaded, protein_file, qvalueParses>>

NoProcess ==
  /\ input = [exists |-> FALSE, rows |-> <<>>]
  /\ chunksize = 1
  /\ n_workers = 1
  /\ outBefore = NoFile
  /\ output = NoFile
  /\ tempDir = FALSE
  /\ chunkFiles = EmptyFn
  /\ procFiles = EmptyFn
  /\ chunk_files = <<>>
  /\ readPos = 0
  /\ task = <<>>
  /\ runs = <<>>
  /\ result = <<>>
  /\ collected = {}
  /\ processed_files = <<>>
  /\ total_rows = 0
  /\ mergeQueue = <<>>
  /\ raised = NoExc
  /\ errlog = <<>>
  /\ startedAfterError = {}
  /\ evidence = <<>>
  /\ calcStd = FALSE
  /\ protein_to_samples = EmptyMapping
  /\ mappingFile = NoMappingFile
  /\ intensitiesFile = FALSE
  /\ buildCount = 0
  /\ mappingWrites = 0
  /\ loaded = <<>>
  /\ protein_file = FALSE
  /\ qvalueParses = 0

(***************************************************************************)
(* The per-row stages of the three pipelines on the scalar columns:        *)
(* _calculate_theoretical_mz_batch, the flag conversion and the schema     *)
(* compliance step.  Retention times are whole minutes, masses are in      *)
(* thousandths of a dalton.                                                *)
(***************************************************************************)
MaxMinutes == 2

MaxCharge == 2

\* pyopenms.Constants.PROTON_MASS_U, in thousandths of a dalton
PROTON_MASS_U == 1007

\* 1 if value == "+" else 0, on any cell that is not the string "+"
convert_maxquant_flag_truthy(value) ==
  IF value \in {Str(""), Num(0)} THEN 0 ELSE 1

convert_maxquant_flag(value) == IF value = Str("+") THEN 1 ELSE 0

\* safe_parse_sequence returns a sequence
Parses(peptidoform) == peptidoform \in {Str("AK"), Str("GGK")}

\* sequence.getMonoWeight()
MonoWeight(peptidoform) == IF peptidoform = Str("AK") THEN 217143 ELSE 260149

\* mass_map[peptidoform]
MassMap(peptidoform) ==
  IF Parses(peptidoform) THEN MonoWeight(peptidoform) ELSE 0

\* (mass_vector + PROTON_MASS_U * charge) / charge
calculate_theoretical_mz(row) ==
  LET z == row["precursor_charge"].n
  IN [row EXCEPT !["calculated_mz"] =
        Num((MassMap(row["peptidoform"]) + PROTON_MASS_U * z) \div z)]

\* the columns of a frame the model follows
Columns == {"is_decoy", "rt", "rt_start", "rt_stop", "peptidoform",
            "precursor_charge", "calculated_mz", "missing"}

RtFields == {"rt", "rt_start", "rt_stop"}

\* the fields of the schema of each record kind, among Columns
SchemaColumns(k) ==
  CASE k = "psm" -> Columns \ {"rt_start", "rt_stop"}
    [] k = "feature" -> Columns
    [] OTHER -> {"is_decoy", "missing"}

FieldTypes == {"string", "int32", "float32", "list", "struct"}

Fields == [type : FieldTypes, nullable : BOOLEAN]

\* the schema field of a column; "missing" stands for any field of the
\* schema that the source file does not have
FieldOf(c, arg) ==
  CASE c = "is_decoy" -> [type |-> "int32", nullable |-> FALSE]
    [] c = "precursor_charge" -> [type |-> "int32", nullable |-> FALSE]
    [] c = "peptidoform" -> [type |-> "string", nullable |-> FALSE]
    [] c = "missing" -> arg.field
    [] OTHER -> [type |-> "float32", nullable |-> arg.float_nullable]

\* the defaults of _ensure_psm_schema_compliance
psm_default(field) ==
  CASE field.type = "string" -> Str("")
    [] field.type = "int32" -> Num(0)
    [] field.type = "float32" -> Num(0)
    [] OTHER -> Null

get_default_value_for_field(field) ==
  CASE field.type = "string" -> Str("")
    [] field.type = "int32" -> Num(0)
    [] field.type = "float32" -> IF field.nullable THEN Null ELSE Num(0)
    [] field.type = "list" -> Null
    [] OTHER -> Null

\* the defaults of _ensure_pg_schema_compliance
pg_default(field) ==
  CASE field.type = "string" -> Null
    [] field.type = "int32" -> Num(0)
    [] field.type = "float32" -> Num(1)
    [] field.type = "list" -> List(<<>>)
    [] OTHER -> ZeroCounts

\* add the missing schema fields, keep the schema's columns only
AddMissing(k, row, arg) ==
  [c \in Columns |->
     IF c \notin SchemaColumns(k) THEN Absent
     ELSE IF row[c] # Absent THEN row[c]
     ELSE CASE k = "psm" -> psm_default(FieldOf(c, arg))
            [] k = "feature" -> get_default_value_for_field(FieldOf(c, arg))
            [] OTHER -> pg_default(FieldOf(c, arg))]

\* (df[field] * 60).astype("float32")
Times60(cell) == IF cell.t = "num" THEN Num(cell.n * 60) ELSE cell

\* _convert_rt_fields that leaves the retention-time window in minutes
convert_rt_fields_rt_only(row) ==
  [c \in Columns |-> IF c = "rt" THEN Times60(row[c]) ELSE row[c]]

convert_rt_fields(row) ==
  [c \in Columns |-> IF c \in RtFields THEN Times60(row[c]) ELSE row[c]]

ensure_psm_schema_compliance(row, arg) ==
  LET df == AddMissing("psm", row, arg)
  IN [df EXCEPT !["is_decoy"] = Num(convert_maxquant_flag(df["is_decoy"])),
                !["rt"] = Times60(df["rt"])]

ensure_feature_schema_compliance(row, arg) ==
  LET df == AddMissing("feature", row, arg)
  IN convert_rt_fields(
       [df EXCEPT !["is_decoy"] = Num(convert_maxquant_flag(df["is_decoy"]))])

ensure_pg_schema_compliance(row, arg) == AddMissing("pg", row, arg)

\* the flag columns of _process_pg_basic_fields
process_pg_flags(row) ==
  [row EXCEPT !["is_decoy"] =
     IF row["is_decoy"] = Absent THEN Num(0)
     ELSE Num(convert_maxquant_flag(row["is_decoy"]))]

FlagCells == {Absent, Null, Str("+"), Str(""), Str("-")}

RtCells == {Absent, Null} \cup {Num(v) : v \in 0..MaxMinutes}

\* the source rows: a PSM source has no retention-time window, a
\* protein-group source has no retention time and no peptidoform
SourceRows(k) ==
  { r \in [is_decoy : FlagCells,
           rt : RtCells,
           rt_start : {Absent, Num(MaxMinutes)},
           rt_stop : {Absent, Null, Num(1)},
           peptidoform : {Absent, Str("AK"), Str("GGK"), Str("?")},
           precursor_charge : {Absent} \cup {Num(z) : z \in 1..MaxCharge},
           calculated_mz : {Absent},
           missing : {Absent}] :
      /\ k # "feature" => r.rt_start = Absent /\ r.rt_stop = Absent
      /\ (k = "pg") <=> r.peptidoform = Absent
      /\ (k = "pg") <=> r.precursor_charge = Absent
      /\ k = "pg" => r.rt = Absent }

RowArgs(k) ==
  [row : SourceRows(k),
   field : Fields,
   float_nullable : IF k = "feature" THEN BOOLEAN ELSE {FALSE}]

InitRow ==
  /\ kind \in {"psm", "feature", "pg"}
  /\ pc = "row_start"
  /\ fnArg \in RowArgs(kind)
  /\ fnRet = fnArg.row
  /\ NoProcess

\* self._calculate_theoretical_mz_batch(df_chunk)
CalculateMz ==
  /\ pc = "row_start"
  /\ kind \in {"psm", "feature"}
  /\ fnRet' = calculate_theoretical_mz(fnRet)
  /\ pc' = "row_schema"
  /\ UNCHANGED <<kind, fnArg, processVars>>

\* df_processed = self._process_pg_basic_fields(df_processed)
PgBasicFields ==
  /\ pc = "row_start"
  /\ kind = "pg"
  /\ fnRet' = process_pg_flags(fnRet)
  /\ pc' = "row_schema"
  /\ UNCHANGED <<kind, fnArg, processVars>>

\* df_chunk = self._ensure_<kind>_schema_compliance(df_chunk)
EnsureSchemaCompliance ==
  /\ pc = "row_schema"
  /\ fnRet' = CASE kind = "psm" -> ensure_psm_schema_compliance(fnRet, fnArg)
                [] kind = "feature" ->
                     ensure_feature_schema_compliance(fnRet, fnArg)
                [] OTHER -> ensure_pg_schema_compliance(fnRet, fnArg)
  /\ pc' = "row_done"
  /\ UNCHANGED <<kind, fnArg, processVars>>

NextRow == CalculateMz \/ PgBasicFields \/ EnsureSchemaCompliance

SpecRow == InitRow /\ [][NextRow]_vars

\* C12: in every output row of the three pipelines is_decoy is 0 or 1, and
\* it is 1 exactly when the source flag of the row was "+"; a missing flag
\* column, a null and any other value give 0.
C12_IsDecoyIffPlus ==
  pc = "row_done" =>
    /\ fnRet["is_decoy"] \in {Num(0), Num(1)}
    /\ fnRet["is_decoy"] = Num(1) <=> fnArg.row["is_decoy"] = Str("+")

\* a protein-group row flagged "+" came out with is_decoy = 1
C12_Witness ==
  /\ pc = "row_done"
  /\ kind = "pg"
  /\ fnArg.row["is_decoy"] = Str("+")
  /\ fnRet["is_decoy"] = Num(1)

\* C14: a retention time of v minutes in the source is v*60 seconds in the
\* output of the PSM and Feature pipelines, for each of rt, rt_start and
\* rt_stop the pipeline has: multiplied by 60 once, not zero times, not twice.
C14_RtTimes60Once ==
  pc = "row_done" /\ kind \in {"psm", "feature"} =>
    \A f \in RtFields :
      fnArg.row[f].t = "num" => fnRet[f] = Num(60 * fnArg.row[f].n)

\* a feature row with rt = 2 min and a window of 2 min .. 1 min
C14_Witness ==
  /\ pc = "row_done"
  /\ kind = "feature"
  /\ fnArg.row["rt"] = Num(2)
  /\ fnArg.row["rt_start"] = Num(MaxMinutes)
  /\ fnArg.row["rt_stop"] = Num(1)
  /\ fnRet["rt"] = Num(120)
  /\ fnRet["rt_stop"] = Num(60)

\* the default the data model documents for a field the source lacks
DocumentedDefaults(field) ==
  CASE field.type = "string" -> {Str("")}
    [] field.type = "int32" -> {Num(0)}
    [] field.type = "float32" -> IF field.nullable THEN {Num(0), Null}
                                 ELSE {Num(0)}
    [] field.type = "list" -> {List(<<>>)}
    [] OTHER -> {Null, ZeroCounts}

\* C17 as claimed: in each of the three pipelines a schema field the source
\* lacks gets the documented default in the output row: "" (never null) for
\* a string, 0 for an int32, 0.0 or null according to nullability for a
\* float32, the empty list for a list.
C17_DocumentedDefaults ==
  pc = "row_done" => fnRet["missing"] \in DocumentedDefaults(fnArg.field)

\* C18 as claimed: calculated_mz of a PSM or feature row is
\* (monoisotopic_mass + charge*proton_mass) / charge when the peptidoform
\* parses and 0.0 when it does not.
C18_UnparseableGivesZero ==
  pc = "row_done" /\ kind \in {"psm", "feature"} =>
    LET p == fnArg.row["peptidoform"]
        z == fnArg.row["precursor_charge"].n
    IN fnRet["calculated_mz"] =
         IF Parses(p) THEN Num((MonoWeight(p) + z * PROTON_MASS_U) \div z)
         ELSE Num(0)

(***************************************************************************)
(* The semicolon-separated columns: _split_semicolon_separated_column and  *)
(* the stages of the three pipelines that apply it.                        *)
(***************************************************************************)
MaxPieces == 2

\* the pieces between the semicolons of a cell
Pieces == {"A", " B ", ""}

MultiCells ==
  {Absent, Null} \cup
  {Text(q) : q \in UNION {[1..n -> Pieces] : n \in 1..MaxPieces}}

\* series.fillna("").astype(str).str.split(";")
split_semicolon_separated_column(cell) ==
  IF cell = Null THEN List(<<"">>) ELSE List(cell.l)

StripAll(q) == [i \in 1..Len(q) |-> Strip(q[i])]

NonEmpty(q) == SelectSeq(q, LAMBDA t : t # "")

\* [name.strip() for name in x.split(";") if name.strip()] if x else []
split_gene_names(cell) ==
  IF cell = Null THEN List(<<>>) ELSE List(NonEmpty(StripAll(cell.l)))

SplitColumns ==
  {"protein_accessions", "pg_accessions", "gg_names", "pg_names",
   "gg_accessions"}

\* the columns each pipeline splits
SplitColumnsOf(k) ==
  CASE k = "psm" -> {"protein_accessions"}
    [] k = "feature" -> {"pg_accessions", "gg_names"}
    [] OTHER -> {"pg_accessions", "pg_names", "gg_accessions"}

\* _apply_psm_mapping
apply_psm_mapping(df) ==
  [df EXCEPT !["protein_accessions"] =
     IF @ = Absent THEN Absent ELSE split_semicolon_separated_column(@)]

\* _process_feature_protein_groups
process_feature_protein_groups(df) ==
  LET pg == IF df["pg_accessions"] = Absent THEN Absent
            ELSE split_semicolon_separated_column(df["pg_accessions"])
  IN [df EXCEPT
        !["pg_accessions"] = pg,
        !["gg_names"] = IF @ = Absent THEN Absent ELSE split_gene_names(@),
        !["unique"] = IF pg = Absent THEN Num(0)
                      ELSE Num(IF Len(pg.l) = 1 THEN 1 ELSE 0)]

\* the list columns of _process_pg_basic_fields
process_pg_lists(df) ==
  [c \in DOMAIN df |->
     IF c \notin SplitColumnsOf("pg") THEN df[c]
     ELSE IF df[c] = Absent THEN List(<<>>)
     ELSE split_semicolon_separated_column(df[c])]

\* the source rows: the columns of the pipeline hold any cell, "unique" and
\* the columns of the other pipelines are not in the frame
SplitRows(k) ==
  { [c \in SplitColumns \cup {"unique"} |->
       IF c \in SplitColumnsOf(k) THEN f[c] ELSE Absent] :
    f \in [SplitColumnsOf(k) -> MultiCells] }

InitSplit ==
  /\ kind \in {"psm", "feature", "pg"}
  /\ pc = "split_start"
  /\ fnArg \in SplitRows(kind)
  /\ fnRet = fnArg
  /\ NoProcess

\* df_chunk = self._apply_psm_mapping(chunk_data)
ApplyPsmMapping ==
  /\ pc = "split_start"
  /\ kind = "psm"
  /\ fnRet' = apply_psm_mapping(fnRet)
  /\ pc' = "split_done"
  /\ UNCHANGED <<kind, fnArg, processVars>>

\* df_chunk = self._process_feature_protein_groups(df_chunk)
ProcessFeatureProteinGroups ==
  /\ pc = "split_start"
  /\ kind = "feature"
  /\ fnRet' = process_feature_protein_groups(fnRet)
  /\ pc' = "split_done"
  /\ UNCHANGED <<kind, fnArg, processVars>>

\* df_chunk = self._process_pg_basic_fields(df_chunk)
PgSplitLists ==
  /\ pc = "split_start"
  /\ kind = "pg"
  /\ fnRet' = process_pg_lists(fnRet)
  /\ pc' = "split_done"
  /\ UNCHANGED <<kind, fnArg, processVars>>

NextSplit == ApplyPsmMapping \/ ProcessFeatureProteinGroups \/ PgSplitLists

SpecSplit == InitSplit /\ [][NextSplit]_vars

\* the accessions of a source cell: none for a missing, null or empty cell
Accessions(cell) ==
  IF cell \in {Absent, Null, Str("")} THEN <<>> ELSE cell.l

\* C13 as claimed: in every feature row unique is 1 exactly when the row's
\* protein-group accession list has exactly one accession; more than one
\* accession, or none (null or empty source cell), gives unique = 0.
C13_UniqueIffOneAccession ==
  pc = "split_done" /\ kind = "feature" =>
    (fnRet["unique"] = Num(1) <=> Len(Accessions(fnArg["pg_accessions"])) = 1)

\* C20 as claimed: every column the pipelines split comes out as the list of
\* the trimmed, non-empty pieces of the cell, and a null or empty cell as
\* the empty list.
C20_SplitTrimmedNonEmpty ==
  pc = "split_done" =>
    \A c \in SplitColumnsOf(kind) :
      fnArg[c] # Absent =>
        fnRet[c] = List(NonEmpty(StripAll(fnArg[c].l)))

(***************************************************************************)
(* qpx.utils.intensity_utils.  An intensity is Null (NaN) or a whole       *)
(* number; a peptide sequence is named by the rank of its first            *)
(* appearance in the list (the functions only compare sequences for        *)
(* equality), and 0 is None.                                               *)
(***************************************************************************)
MaxPeptides == 4

IntensityValues == {Null, Num(-1), Num(0), Num(1), Num(2)}

\* not math.isnan(intensity) and intensity >= 0
Valid(intensity) == intensity.t = "num" /\ intensity.n >= 0

\* not math.isnan(intensity)
NotNan(intensity) == intensity.t = "num"

RECURSIVE SumCells(_)
\* sum(valid_intensities)
SumCells(q) == IF q = <<>> THEN 0 ELSE Head(q).n + SumCells(Tail(q))

\* the function with the filter "not math.isnan(intensity)" alone
calculate_total_nan_only(peptide_intensities) ==
  IF peptide_intensities = <<>> THEN Null
  ELSE LET valid_intensities == SelectSeq(peptide_intensities, NotNan)
       IN IF valid_intensities = <<>> THEN Null
          ELSE Num(SumCells(valid_intensities))

calculate_total_all_peptides_intensity(peptide_intensities) ==
  IF peptide_intensities = <<>> THEN Null
  ELSE LET valid_intensities == SelectSeq(peptide_intensities, Valid)
       IN IF valid_intensities = <<>> THEN Null
          ELSE Num(SumCells(valid_intensities))

InitTotal ==
  /\ kind = "pg"
  /\ pc = "total_call"
  /\ fnArg \in SeqsUpTo(IntensityValues, MaxPeptides)
  /\ fnRet = Null
  /\ NoProcess

\* total_intensity = calculate_total_all_peptides_intensity(intensities)
CallTotal ==
  /\ pc = "total_call"
  /\ fnRet' = calculate_total_all_peptides_intensity(fnArg)
  /\ pc' = "total_done"
  /\ UNCHANGED <<kind, fnArg, processVars>>

NextTotal == CallTotal

SpecTotal == InitTotal /\ [][NextTotal]_vars

RECURSIVE SumOver(_, _)
\* the sum of q[i].n over the positions i in S
SumOver(q, S) ==
  IF S = {} THEN 0
  ELSE LET i == CHOOSE j \in S : TRUE IN q[i].n + SumOver(q, S \ {i})

ValidPositions(q) == {i \in 1..Len(q) : q[i] # Null /\ q[i].n >= 0}

\* C15: calculate_total_all_peptides_intensity returns NaN for the empty
\* list and for a list with no valid entry; for any other list it returns
\* the sum of exactly the entries that are neither NaN nor negative.
C15_TotalOfValidEntries ==
  pc = "total_done" =>
    fnRet = IF ValidPositions(fnArg) = {} THEN Null
            ELSE Num(SumOver(fnArg, ValidPositions(fnArg)))

\* a list holding a NaN, a negative and two positive entries gave their sum
C15_Witness ==
  /\ pc = "total_done"
  /\ fnArg = <<Num(2), Null, Num(-1), Num(1)>>
  /\ fnRet = Num(3)

\* peptide sequence lists in which the sequences are ranked by first
\* appearance
SequenceLists ==
  { s \in SeqsUpTo(0..MaxPeptides, MaxPeptides) :
      \A i \in 1..Len(s) :
        s[i] > 0 =>
          \/ s[i] = 1
          \/ \E j \in 1..(i - 1) : s[j] = s[i] - 1 }

\* the pairs the aggregation loop keeps
ValidPairs(peptide_sequences, intensities) ==
  { i \in 1..Len(intensities) :
      peptide_sequences[i] # 0 /\ Valid(intensities[i]) }

\* peptide_totals after the loop
PeptideTotals(peptide_sequences, intensities) ==
  LET kept == ValidPairs(peptide_sequences, intensities)
  IN [seq \in {peptide_sequences[i] : i \in kept} |->
        SumOver(intensities, {i \in kept : peptide_sequences[i] = seq})]

RECURSIVE SortedReverse(_)
\* sorted(peptide_totals.values(), reverse=True)
SortedReverse(totals) ==
  IF DOMAIN totals = {} THEN <<>>
  ELSE LET k == CHOOSE x \in DOMAIN totals :
                  \A y \in DOMAIN totals : totals[x] >= totals[y]
       IN <<totals[k]>> \o
          SortedReverse([y \in DOMAIN totals \ {k} |-> totals[y]])

RECURSIVE SumSeq(_)
SumSeq(q) == IF q = <<>> THEN 0 ELSE Head(q) + SumSeq(Tail(q))

\* sum(sorted_peptides[:3])
SumTop3(sorted) == SumSeq(SubSeq(sorted, 1, MinNat(3, Len(sorted))))

\* the top three of the valid intensities themselves, not aggregated by
\* peptide sequence (calculate_top3_intensity)
calculate_top3_not_aggregated(peptide_sequences, intensities) ==
  IF peptide_sequences = <<>> \/ intensities = <<>> THEN Null
  ELSE IF Len(peptide_sequences) # Len(intensities) THEN Null
  ELSE LET kept == ValidPairs(peptide_sequences, intensities)
       IN IF kept = {} THEN Null
          ELSE Num(SumTop3(SortedReverse([i \in kept |-> intensities[i].n])))

calculate_top3_peptide_intensity(peptide_sequences, intensities) ==
  IF peptide_sequences = <<>> \/ intensities = <<>> THEN Null
  ELSE IF Len(peptide_sequences) # Len(intensities) THEN Null
  ELSE LET peptide_totals == PeptideTotals(peptide_sequences, intensities)
       IN IF DOMAIN peptide_totals = {} THEN Null
          ELSE Num(SumTop3(SortedReverse(peptide_totals)))

\* two lists of the same length, or two short lists of different lengths
Top3Args ==
  { a \in [peptide_sequences : SequenceLists,
           intensities : SeqsUpTo(IntensityValues, MaxPeptides)] :
      \/ Len(a.peptide_sequences) = Len(a.intensities)
      \/ Len(a.peptide_sequences) + Len(a.intensities) <= 3 }

InitTop3 ==
  /\ kind = "pg"
  /\ pc = "top3_call"
  /\ fnArg \in Top3Args
  /\ fnRet = Null
  /\ NoProcess

\* top3_intensity = calculate_top3_peptide_intensity(sequences, intensities)
CallTop3 ==
  /\ pc = "top3_call"
  /\ fnRet' = calculate_top3_peptide_intensity(fnArg.peptide_sequences,
                                               fnArg.intensities)
  /\ pc' = "top3_done"
  /\ UNCHANGED <<kind, fnArg, processVars>>

NextTop3 == CallTop3

SpecTop3 == InitTop3 /\ [][NextTop3]_vars

\* the total of the valid intensities of one peptide sequence
TotalOf(seq, a) ==
  SumOver(a.intensities,
          {i \in 1..Len(a.intensities) :
             a.peptide_sequences[i] = seq /\ Valid(a.intensities[i])})

\* the distinct sequences that have a valid pair
SequencesOf(a) ==
  {a.peptide_sequences[i] : i \in ValidPairs(a.peptide_sequences, a.intensities)}

RECURSIVE SumTotals(_, _)
SumTotals(S, a) ==
  IF S = {} THEN 0
  ELSE LET x == CHOOSE y \in S : TRUE
       IN TotalOf(x, a) + SumTotals(S \ {x}, a)

\* S holds three sequences none of whose totals is below a total outside S
ThreeLargest(S, a) ==
  /\ S \subseteq SequencesOf(a)
  /\ Cardinality(S) = 3
  /\ \A x \in S : \A y \in SequencesOf(a) \ S : TotalOf(x, a) >= TotalOf(y, a)

\* C16: calculate_top3_peptide_intensity sums the valid intensities per
\* distinct peptide sequence and returns the sum of the three largest
\* per-sequence totals, or of all totals when there are fewer than three
\* sequences; it returns NaN when either list is empty, when the lists
\* differ in length and when no valid pair remains.
C16_Top3OfSequenceTotals ==
  pc = "top3_done" =>
    IF \/ fnArg.peptide_sequences = <<>>
       \/ fnArg.intensities = <<>>
       \/ Len(fnArg.peptide_sequences) # Len(fnArg.intensities)
    THEN fnRet = Null
    ELSE IF SequencesOf(fnArg) = {} THEN fnRet = Null
    ELSE IF Cardinality(SequencesOf(fnArg)) < 3
         THEN fnRet = Num(SumTotals(SequencesOf(fnArg), fnArg))
    ELSE \A S \in SUBSET SequencesOf(fnArg) :
           ThreeLargest(S, fnArg) => fnRet = Num(SumTotals(S, fnArg))

\* four peptide sequences, the smallest total left out
C16_Witness ==
  /\ pc = "top3_done"
  /\ fnArg.peptide_sequences = <<1, 2, 3, 4>>
  /\ fnArg.intensities = <<Num(2), Num(1), Num(0), Num(2)>>
  /\ fnRet = Num(5)

(***************************************************************************)
(* MaxQuant._get_sample_accession_from_sdrf.  A file name is               *)
(* Name(stem, ext) with the stem the part before the first dot, NullName   *)
(* is None; the channel "" is None; a sample accession is Name(s, "").     *)
(***************************************************************************)
ReferenceFiles ==
  {NullName, Name("R1", "raw"), Name("R1", "d.raw"), Name("R2", "raw"),
   Name("R3", ""), Name("R1-126", "raw")}

Channels == {"", "126", "127"}

ExperimentTypes == {"", "LFQ", "TMT10"}

\* self._sample_map as get_sample_map_run returns it: None or empty, keyed
\* by file key, keyed by "file_key-channel"
SampleMaps ==
  { [k \in {} |-> NullName],
    [k \in {"R1", "R2"} |-> IF k = "R1" THEN Name("S1", "") ELSE Name("S2", "")],
    [k \in {"R1-126", "R1-127", "R2-126"} |->
       IF k = "R1-127" THEN Name("S2", "") ELSE Name("S1", "")],
    [k \in {"R1", "R1-126"} |-> IF k = "R1" THEN Name("S1", "") ELSE Name("S3", "")] }

Returns(value) == [raised |-> FALSE, value |-> value]

Raises == [raised |-> TRUE, value |-> NullName]

\* self._sample_map[map_key]
sample_map_subscript(sample_map, map_key, default) ==
  IF map_key \in DOMAIN sample_map THEN Returns(sample_map[map_key])
  ELSE Raises

\* self._sample_map.get(map_key, reference_file)
sample_map_get(sample_map, map_key, default) ==
  IF map_key \in DOMAIN sample_map THEN Returns(sample_map[map_key])
  ELSE Returns(default)

\* f"{file_key}-{channel}"
MapKey(file_key, channel) == file_key \o "-" \o channel

get_sample_accession_from_sdrf(self, reference_file, channel) ==
  IF DOMAIN self.sample_map = {} THEN Returns(reference_file)
  ELSE LET file_key == reference_file.stem
       IN IF channel # "" /\ self.experiment_type # "LFQ"
          THEN sample_map_get(self.sample_map, MapKey(file_key, channel),
                              reference_file)
          ELSE sample_map_get(self.sample_map, file_key, reference_file)

InitSample ==
  /\ kind = "feature"
  /\ pc = "sample_call"
  /\ fnArg \in [self : [sample_map : SampleMaps,
                        experiment_type : ExperimentTypes],
                reference_file : ReferenceFiles,
                channel : Channels]
  /\ fnRet = Returns(NullName)
  /\ NoProcess

\* sample_accession = self._get_sample_accession_from_sdrf(reference_file_name)
CallGetSampleAccession ==
  /\ pc = "sample_call"
  /\ fnRet' = get_sample_accession_from_sdrf(fnArg.self, fnArg.reference_file,
                                             fnArg.channel)
  /\ pc' = "sample_done"
  /\ UNCHANGED <<kind, fnArg, processVars>>

NextSample == CallGetSampleAccession

SpecSample == InitSample /\ [][NextSample]_vars

\* the sample the map holds for a key, the reference file name on a miss
Resolved(key, a) ==
  IF key \in DOMAIN a.self.sample_map THEN a.self.sample_map[key]
  ELSE a.reference_file

\* C19: _get_sample_accession_from_sdrf never raises; for a label-free
\* experiment it looks up the file key (the part of the file name before the
\* first dot) alone, for a multiplexed experiment with a channel the
\* composite key "file_key-channel", and on a miss it returns the reference
\* file name it was given.
C19_ResolveSampleNeverRaises ==
  pc = "sample_done" =>
    /\ ~fnRet.raised
    /\ fnArg.self.experiment_type = "LFQ" =>
         fnRet.value = Resolved(fnArg.reference_file.stem, fnArg)
    /\ fnArg.self.experiment_type # "LFQ" /\ fnArg.channel # "" =>
         fnRet.value =
           Resolved(MapKey(fnArg.reference_file.stem, fnArg.channel), fnArg)

\* a multiplexed run resolved by its composite key, where the file key
\* alone maps to another sample
C19_Witness ==
  /\ pc = "sample_done"
  /\ fnArg.self.experiment_type = "TMT10"
  /\ fnArg.reference_file = Name("R1", "raw")
  /\ fnArg.channel = "126"
  /\ "R1" \in DOMAIN fnArg.self.sample_map
  /\ fnRet.value = Name("S3", "")

(***************************************************************************)
(* MaxQuant._build_protein_to_samples_mapping, read chunk by read chunk.   *)
(* The chunk size is an input here, so that tables longer than one read    *)
(* chunk are covered.                                                      *)
(***************************************************************************)
MaxEvidenceRows == 3

EvidenceRows ==
  [raw : {NullName, Name("R1", ""), Name("R2", "d")},
   ids : {<<>>, <<"5">>, <<"7">>, <<"5", "7">>, <<" 5", "">>}]

InitMapping ==
  /\ kind = "pg"
  /\ pc = "map_read"
  /\ fnArg \in [evidence : SeqsUpTo(EvidenceRows, MaxEvidenceRows),
                chunksize : 1..MaxEvidenceRows]
  /\ fnRet = [pos |-> 0, map |-> EmptyMapping]
  /\ NoProcess

\* one iteration of "for chunk in pd.read_csv(...)"
ReadEvidenceChunk ==
  /\ pc = "map_read"
  /\ fnRet.pos < Len(fnArg.evidence)
  /\ LET last == MinNat(fnRet.pos + fnArg.chunksize, Len(fnArg.evidence))
         chunk == SubSeq(fnArg.evidence, fnRet.pos + 1, last)
     IN fnRet' = [pos |-> last,
                  map |-> UpdateMapping(fnRet.map, ChunkMapping(chunk))]
  /\ UNCHANGED <<kind, pc, fnArg, processVars>>

\* return protein_to_samples
ReturnMapping ==
  /\ pc = "map_read"
  /\ fnRet.pos = Len(fnArg.evidence)
  /\ pc' = "map_done"
  /\ UNCHANGED <<kind, fnArg, fnRet, processVars>>

NextMapping == ReadEvidenceChunk \/ ReturnMapping

SpecMapping == InitMapping /\ [][NextMapping]_vars

\* the ids of a row: the trimmed, non-empty pieces of its cell
IdsOfRow(row) == Range(NonEmpty(StripAll(row.ids)))

\* the rows that count: raw file and ids cell both non-null
CountedRows(ev) ==
  {i \in 1..Len(ev) : ev[i].raw # NullName /\ ev[i].ids # <<>>}

\* C21 as claimed: sample s is in the set of group id p exactly when some
\* evidence row with a non-null raw file and a non-null ids cell has p among
\* its split, trimmed, non-empty ids and resolves to s; so the result is the
\* same however the table is cut into read chunks.
C21_MappingIsTheRelation ==
  pc = "map_done" =>
    LET ev == fnArg.evidence
    IN /\ DOMAIN fnRet.map = UNION {IdsOfRow(ev[i]) : i \in CountedRows(ev)}
       /\ \A p \in DOMAIN fnRet.map :
            fnRet.map[p] =
              {SampleOfRaw(ev[i].raw) : i \in {n \in CountedRows(ev) : p \in IdsOfRow(ev[n])}}


(***************************************************************************)
(* quantmsio convert-idxml-batch (commands/convert/idxml.py).              *)
(* An option is None or a string; a comma-separated list of paths is kept  *)
(* as the list of its paths, the empty string as the empty list.  The file *)
(* "missing" does not exist on disk; a folder option names an existing     *)
(* directory (click.Path(exists=True)).                                    *)
(***************************************************************************)
MaxIdxmlFiles == 2

NoneOpt == [t |-> "none", v |-> <<>>]

StrOpt(paths) == [t |-> "str", v |-> paths]

PathNames == {"a", "b", "missing"}

PathExists(f) == f # "missing"

PathLists == {NoneOpt} \cup {StrOpt(q) : q \in SeqsUpTo(PathNames, MaxIdxmlFiles)}

NoFolder == "none"

IdxmlFolders == {NoFolder, "empty_dir", "full_dir"}

MzmlFolders == {NoFolder, "mz_dir"}

\* Python truthiness of an option value: neither None nor ""
Truthy(o) == o.t = "str" /\ o.v # <<>>

FolderGiven(f) == f # NoFolder

\* glob.glob(folder / "*.idXML")
GlobIdxml(folder) == IF folder = "full_dir" THEN <<"a", "b">> ELSE <<>>

\* (variant: only the "neither" case is rejected)
validate_batch_parameters_neither_only(idxml_folder, idxml_files, mzml_folder, mzml_files) ==
  IF ~FolderGiven(idxml_folder) /\ ~Truthy(idxml_files) THEN "UsageError"
  ELSE "none"

\* _validate_batch_parameters: the error it raises, "none" if it returns
validate_batch_parameters(idxml_folder, idxml_files, mzml_folder, mzml_files) ==
  IF ~FolderGiven(idxml_folder) /\ ~Truthy(idxml_files) THEN "UsageError"
  ELSE IF FolderGiven(idxml_folder) /\ Truthy(idxml_files) THEN "UsageError"
  ELSE IF FolderGiven(mzml_folder) /\ Truthy(mzml_files) THEN "UsageError"
  ELSE "none"

AllExist(paths) == \A i \in 1..Len(paths) : PathExists(paths[i])

\* _get_idxml_files: [error, paths]
get_idxml_files(idxml_folder, idxml_files) ==
  IF FolderGiven(idxml_folder)
  THEN IF GlobIdxml(idxml_folder) = <<>>
       THEN [error |-> "UsageError", paths |-> <<>>]
       ELSE [error |-> "none", paths |-> GlobIdxml(idxml_folder)]
  ELSE IF AllExist(idxml_files.v)
       THEN [error |-> "none", paths |-> idxml_files.v]
       ELSE [error |-> "UsageError", paths |-> <<>>]

\* _setup_mzml_mapping: the error it raises, "none" if it returns
setup_mzml_mapping(mzml_files) ==
  IF Truthy(mzml_files) /\ ~AllExist(mzml_files.v) THEN "UsageError" ELSE "none"

IdxmlArgs ==
  [idxml_folder : IdxmlFolders, idxml_files : PathLists,
   mzml_folder : MzmlFolders, mzml_files : PathLists,
   verbose : BOOLEAN,
   broken : SUBSET {"a", "b"}]      \* the files IdXML(...).to_parquet fails on

IdxmlStart ==
  [error |-> "none", paths |-> <<>>, i |-> 0, parquet |-> <<>>,
   outputFolder |-> FALSE, tempDir |-> FALSE, tempMade |-> FALSE,
   outputFile |-> FALSE]

InitIdxml ==
  /\ kind = "idxml"
  /\ pc = "idxml_validate"
  /\ fnArg \in IdxmlArgs
  /\ fnRet = IdxmlStart
  /\ NoProcess

IdxmlRaise(e) ==
  /\ pc' = "idxml_exit"
  /\ fnRet' = [fnRet EXCEPT !.error = e]

ValidateBatchParameters ==
  /\ pc = "idxml_validate"
  /\ LET e == validate_batch_parameters(fnArg.idxml_folder, fnArg.idxml_files,
                                        fnArg.mzml_folder, fnArg.mzml_files)
     IN IF e # "none" THEN IdxmlRaise(e)
        ELSE pc' = "idxml_files" /\ UNCHANGED fnRet
  /\ UNCHANGED <<kind, fnArg, processVars>>

GetIdxmlFiles ==
  /\ pc = "idxml_files"
  /\ LET r == get_idxml_files(fnArg.idxml_folder, fnArg.idxml_files)
     IN IF r.error # "none" THEN IdxmlRaise(r.error)
        ELSE /\ pc' = "idxml_mzml"
             /\ fnRet' = [fnRet EXCEPT !.paths = r.paths]
  /\ UNCHANGED <<kind, fnArg, processVars>>

SetupMzmlMapping ==
  /\ pc = "idxml_mzml"
  /\ LET e == setup_mzml_mapping(fnArg.mzml_files)
     IN IF e # "none" THEN IdxmlRaise(e)
        ELSE pc' = "idxml_mkdir" /\ UNCHANGED fnRet
  /\ UNCHANGED <<kind, fnArg, processVars>>

\* Path(output_folder).mkdir(...); temp_dir = tempfile.mkdtemp(...)
MakeDirs ==
  /\ pc = "idxml_mkdir"
  /\ pc' = "idxml_convert"
  /\ fnRet' = [fnRet EXCEPT !.outputFolder = TRUE, !.tempDir = TRUE, !.tempMade = TRUE]
  /\ UNCHANGED <<kind, fnArg, processVars>>

\* one iteration of the loop of _convert_batch_files
ConvertSingleIdxml ==
  /\ pc = "idxml_convert"
  /\ fnRet.i < Len(fnRet.paths)
  /\ LET f == fnRet.paths[fnRet.i + 1]
     IN IF f \in fnArg.broken
        THEN IF fnArg.verbose
             THEN /\ pc' = "idxml_finally"
                  /\ fnRet' = [fnRet EXCEPT !.error = "Exception"]
             ELSE /\ pc' = pc
                  /\ fnRet' = [fnRet EXCEPT !.i = @ + 1]
        ELSE /\ pc' = pc
             /\ fnRet' = [fnRet EXCEPT !.i = @ + 1, !.parquet = Append(@, f)]
  /\ UNCHANGED <<kind, fnArg, processVars>>

\* "if not parquet_files: raise", else merge_idxml_parquet_files
MergeIdxmlParquet ==
  /\ pc = "idxml_convert"
  /\ fnRet.i = Len(fnRet.paths)
  /\ pc' = "idxml_finally"
  /\ fnRet' = IF fnRet.parquet = <<>>
              THEN [fnRet EXCEPT !.error = "ClickException"]
              ELSE [fnRet EXCEPT !.outputFile = TRUE]
  /\ UNCHANGED <<kind, fnArg, processVars>>

\* finally: shutil.rmtree(temp_dir)
IdxmlFinally ==
  /\ pc = "idxml_finally"
  /\ pc' = "idxml_exit"
  /\ fnRet' = [fnRet EXCEPT !.tempDir = FALSE]
  /\ UNCHANGED <<kind, fnArg, processVars>>

NextIdxml ==
  \/ ValidateBatchParameters
  \/ GetIdxmlFiles
  \/ SetupMzmlMapping
  \/ MakeDirs
  \/ ConvertSingleIdxml
  \/ MergeIdxmlParquet
  \/ IdxmlFinally

SpecIdxml == InitIdxml /\ [][NextIdxml]_vars

ExactlyOneIdxmlSource ==
  FolderGiven(fnArg.idxml_folder) # Truthy(fnArg.idxml_files)

BothMzmlSources == FolderGiven(fnArg.mzml_folder) /\ Truthy(fnArg.mzml_files)

FolderWithoutIdxml ==
  FolderGiven(fnArg.idxml_folder) /\ GlobIdxml(fnArg.idxml_folder) = <<>>

\* C23: the batch command goes on to create its directories only when
\* exactly one of --idxml-folder and --idxml-files is given (non-empty), not
\* both mzML options are given and a given folder holds .idXML files; each of
\* these cases ends in a usage error; and a usage error is raised before the
\* output folder, the temporary directory or the output file is created.
C23_BatchInputValidated ==
  /\ pc \notin {"idxml_validate", "idxml_exit"} =>
       ExactlyOneIdxmlSource /\ ~BothMzmlSources
  /\ pc \in {"idxml_mkdir", "idxml_convert", "idxml_finally"} => ~FolderWithoutIdxml
  /\ (pc = "idxml_exit" /\ (~ExactlyOneIdxmlSource \/ BothMzmlSources \/ FolderWithoutIdxml)) =>
       fnRet.error = "UsageError"
  /\ fnRet.error = "UsageError" =>
       ~fnRet.tempMade /\ ~fnRet.outputFolder /\ ~fnRet.outputFile

\* both --idxml-folder and --idxml-files were given and the command failed
C23_Witness ==
  /\ pc = "idxml_exit"
  /\ FolderGiven(fnArg.idxml_folder) /\ Truthy(fnArg.idxml_files)
  /\ AllExist(fnArg.idxml_files.v)
  /\ fnRet.error = "UsageError"
  /\ ~fnRet.tempMade

(***************************************************************************)
(* MetadataSchemaGenerator (qpx.core.metadata): add_column_metadata, clear *)
(* and get_records.  calls is the history of add and clear calls made on   *)
(* the generator.                                                          *)
(***************************************************************************)
MaxCalls == 4

NoneStr == [t |-> "none", s |-> ""]

SomeStr(s) == [t |-> "str", s |-> s]

\* Python's "x or ''" for an optional string
OrEmpty(o) == IF o.t = "none" THEN "" ELSE o.s

AddArgs ==
  [model_view : {"psm", "pg"}, column_name : {"charge"},
   ontology_accession : {NoneStr, SomeStr("MS:1000041")},
   full_name : {NoneStr}, settings : {NoneStr}, file_name : {NoneStr}]

MetadataRecord(a) ==
  [model_view |-> a.model_view,
   file_name |-> OrEmpty(a.file_name),
   column_name |-> a.column_name,
   ontology_accession |-> OrEmpty(a.ontology_accession),
   full_name |-> OrEmpty(a.full_name),
   settings |-> OrEmpty(a.settings)]

\* (variant: the new record is put in front of the list)
add_column_metadata_in_front(records, a) == <<MetadataRecord(a)>> \o records

add_column_metadata(records, a) == Append(records, MetadataRecord(a))

clear(records) == <<>>

\* get_records returns a copy of the list
get_records(records) == [i \in 1..Len(records) |-> records[i]]

NoArgs == CHOOSE a \in AddArgs : TRUE

InitMetadata ==
  /\ kind = "metadata"
  /\ pc = "metadata"
  /\ fnArg = <<>>
  /\ fnRet = [metadata_records |-> <<>>, calls |-> <<>>, got |-> <<>>, gotAt |-> 0]
  /\ NoProcess

AddColumnMetadata ==
  /\ Len(fnRet.calls) < MaxCalls
  /\ \E a \in AddArgs :
       fnRet' = [fnRet EXCEPT
                   !.metadata_records = add_column_metadata(@, a),
                   !.calls = Append(@, [op |-> "add", args |-> a])]
  /\ UNCHANGED <<kind, pc, fnArg, processVars>>

Clear ==
  /\ Len(fnRet.calls) < MaxCalls
  /\ fnRet' = [fnRet EXCEPT
                 !.metadata_records = clear(@),
                 !.calls = Append(@, [op |-> "clear", args |-> NoArgs])]
  /\ UNCHANGED <<kind, pc, fnArg, processVars>>

GetRecords ==
  /\ fnRet' = [fnRet EXCEPT
                 !.got = get_records(fnRet.metadata_records),
                 !.gotAt = Len(fnRet.calls)]
  /\ UNCHANGED <<kind, pc, fnArg, processVars>>

NextMetadata == AddColumnMetadata \/ Clear \/ GetRecords

SpecMetadata == InitMetadata /\ [][NextMetadata]_vars

\* the position of the last clear among the first n calls (0 if none)
LastClear(calls, n) ==
  LET S == {0} \cup {i \in 1..n : calls[i].op = "clear"}
  IN CHOOSE m \in S : \A x \in S : x <= m

\* the records of the adds made after the last clear, in call order
AddedSinceClear(calls, n) ==
  [i \in 1..(n - LastClear(calls, n)) |->
     MetadataRecord(calls[LastClear(calls, n) + i].args)]

\* C24: after any sequence of add_column_metadata and clear calls the
\* generator holds, and get_records returns, exactly the records added since
\* the last clear, in the order they were added.
C24_RecordsSinceLastClear ==
  /\ fnRet.metadata_records = AddedSinceClear(fnRet.calls, Len(fnRet.calls))
  /\ fnRet.got = AddedSinceClear(fnRet.calls, fnRet.gotAt)

\* get_records after add, clear, and two adds of different records
C24_Witness ==
  /\ Len(fnRet.calls) >= 4
  /\ fnRet.gotAt = Len(fnRet.calls)
  /\ LastClear(fnRet.calls, fnRet.gotAt) = 2
  /\ Len(fnRet.got) = 2
  /\ fnRet.got[1] # fnRet.got[2]

(***************************************************************************)
(* MaxQuant._process_pg_peptides, one row: the peptides of a protein group *)
(* are shared out over its accessions.                                     *)
(***************************************************************************)
MaxProteins == 4

MaxTotalPeptides == 6

ProteinNames == {"", "P1", "P2"}

\* int(total_peptides * 0.6)
SixTenths(t) == (6 * t) \div 10

MaxOf(a, b) == IF a >= b THEN a ELSE b

\* the peptide_count of the protein at 0-based position i of n proteins
PeptideShare(i, n, total_peptides) ==
  LET main_peptide_count == MaxOf(1, SixTenths(total_peptides))
      remaining_peptides == total_peptides - main_peptide_count
      other_count == n - 1
  IN IF i = 0 THEN main_peptide_count
     ELSE IF other_count > 0 /\ remaining_peptides > 0
          THEN (remaining_peptides \div other_count)
               + (IF i <= remaining_peptides % other_count THEN 1 ELSE 0)
          ELSE 0

PeptideEntry(name, count) == [protein_name |-> name, peptide_count |-> count]

\* (variant: the extra peptide goes to the proteins before position r, not
\* up to position r)
distribute_peptides_short(proteins, total_peptides) ==
  LET ps == NonEmpty(proteins)
      rest == total_peptides - MaxOf(1, SixTenths(total_peptides))
      Share(i) == IF i = 0 THEN MaxOf(1, SixTenths(total_peptides))
                  ELSE IF rest > 0
                       THEN (rest \div (Len(ps) - 1))
                            + (IF i < rest % (Len(ps) - 1) THEN 1 ELSE 0)
                       ELSE 0
      all == [k \in 1..Len(ps) |-> PeptideEntry(ps[k], Share(k - 1))]
  IN SelectSeq(all, LAMBDA e : e.peptide_count > 0)

\* _distribute_peptides_among_proteins
distribute_peptides_among_proteins(proteins, total_peptides) ==
  LET ps == NonEmpty(proteins)
      all == [k \in 1..Len(ps) |->
                PeptideEntry(ps[k], PeptideShare(k - 1, Len(ps), total_peptides))]
  IN SelectSeq(all, LAMBDA e : e.peptide_count > 0)

\* the body of the row loop of _process_pg_peptides
process_pg_peptides(pg_accessions, total_peptides) ==
  IF pg_accessions = <<>> THEN <<>>
  ELSE IF Len(pg_accessions) = 1
       THEN IF pg_accessions[1] # ""
            THEN <<PeptideEntry(pg_accessions[1], total_peptides)>>
            ELSE <<>>
       ELSE distribute_peptides_among_proteins(pg_accessions, total_peptides)

\* total_peptides is what _get_peptide_count_from_row returns: at least 1
InitPeptides ==
  /\ kind = "pg"
  /\ pc = "peptides_call"
  /\ fnArg \in [pg_accessions : SeqsUpTo(ProteinNames, MaxProteins),
                total_peptides : 1..MaxTotalPeptides]
  /\ fnRet = <<>>
  /\ NoProcess

ProcessPgPeptides ==
  /\ pc = "peptides_call"
  /\ pc' = "peptides_done"
  /\ fnRet' = process_pg_peptides(fnArg.pg_accessions, fnArg.total_peptides)
  /\ UNCHANGED <<kind, fnArg, processVars>>

NextPeptides == ProcessPgPeptides

SpecPeptides == InitPeptides /\ [][NextPeptides]_vars

RECURSIVE SumCounts(_)
SumCounts(q) == IF q = <<>> THEN 0 ELSE Head(q).peptide_count + SumCounts(Tail(q))

\* C25: for a group with more than one non-empty accession and T >= 1
\* peptides, the list names a prefix of the non-empty accessions in their
\* order, every listed count is positive, the first protein has
\* max(1, floor(0.6*T)), the counts of the other proteins (0 for an omitted
\* one) never increase along the list and differ by at most one, and the
\* counts sum to T.
C25_PeptidesDistributed ==
  (pc = "peptides_done" /\ Len(NonEmpty(fnArg.pg_accessions)) > 1) =>
    LET ps == NonEmpty(fnArg.pg_accessions)
        T == fnArg.total_peptides
        n == Len(fnRet)
    IN /\ n >= 1 /\ n <= Len(ps)
       /\ \A i \in 1..n : fnRet[i].protein_name = ps[i] /\ fnRet[i].peptide_count > 0
       /\ fnRet[1].peptide_count = MaxOf(1, SixTenths(T))
       /\ \A i, j \in 2..n :
            i < j => /\ fnRet[i].peptide_count >= fnRet[j].peptide_count
                     /\ fnRet[i].peptide_count - fnRet[j].peptide_count <= 1
       /\ n < Len(ps) => \A i \in 2..n : fnRet[i].peptide_count = 1
       /\ SumCounts(fnRet) = T

\* three proteins share five peptides as 3, 1, 1
C25_Witness ==
  /\ pc = "peptides_done"
  /\ Len(NonEmpty(fnArg.pg_accessions)) = 3
  /\ fnArg.total_peptides = 5
  /\ Len(fnRet) = 3
  /\ fnRet[2].peptide_count = 1
  /\ "" \in Range(fnArg.pg_accessions)

(***************************************************************************)
(* MaxQuant._process_pg_intensities, one protein-group row.  The samples   *)
(* of a group are a Python set of strings: the order in which a process    *)
(* iterates it is fixed within the process and open between processes.     *)
(* The same row is processed in two runs.                                  *)
(***************************************************************************)
MaxSamples == 2

SampleOf(i) == Name(<<"S1", "S2", "S3", "S4">>[i], "")

PgSamples == {SampleOf(i) : i \in 1..MaxSamples}

PgIds == {"5", "7"}

\* self._protein_to_samples as a worker holds it: None, or a dict whose
\* values are non-empty sets
PgMappings ==
  UNION {[D -> (SUBSET PgSamples) \ {{}}] : D \in SUBSET PgIds}

DefaultReferenceFile == Name("proteinGroups", "txt")

DefaultChannel == "label free sample"

\* _get_channel_from_sdrf_for_sample, "" for None
ChannelFromSdrf(sdrf, sample) ==
  IF sdrf /\ sample = SampleOf(1) THEN "TMT126" ELSE ""

ChannelOf(sdrf, sample) ==
  IF ChannelFromSdrf(sdrf, sample) = "" THEN DefaultChannel
  ELSE ChannelFromSdrf(sdrf, sample)

\* _get_reference_file_for_sample
ReferenceFileForSample(sdrf, sample) ==
  IF sdrf /\ sample = SampleOf(1) THEN Name("R1", "") ELSE DefaultReferenceFile

\* pd.notna(x) and x > 0
Positive(c) == c.t = "num" /\ c.n > 0

\* the guards shared by the three _process_*_pg_intensities functions
IdMapped(a) == a.loaded /\ a.hasId /\ a.id \in DOMAIN a.map

IntensityEntry(sample, channel, value) ==
  [sample_accession |-> sample, channel |-> channel, intensity |-> value]

\* (variant: only the first sample of the group gets an entry)
process_sample_specific_first_only(a, order) ==
  IF ~IdMapped(a) \/ ~Positive(a.intensity) THEN <<>>
  ELSE <<IntensityEntry(order[1], ChannelOf(a.sdrf, order[1]), a.intensity.n)>>

\* _process_sample_specific_pg_intensities
process_sample_specific_pg_intensities(a, order) ==
  IF ~IdMapped(a) THEN <<>>
  ELSE IF ~Positive(a.intensity) THEN <<>>
  ELSE [i \in 1..Len(order) |->
          IntensityEntry(order[i], ChannelOf(a.sdrf, order[i]), a.intensity.n)]

IntensityValue(name, value) == [intensity_name |-> name, intensity_value |-> value]

AdditionalItem(sample, channel, values) ==
  [sample_accession |-> sample, channel |-> channel, intensities |-> values]

\* _process_lfq_pg_intensities: the first positive LFQ column, per sample
process_lfq_pg_intensities(a, order) ==
  IF ~IdMapped(a) \/ ~Positive(a.lfq) THEN <<>>
  ELSE [i \in 1..Len(order) |->
          AdditionalItem(order[i], ChannelOf(a.sdrf, order[i]),
                         <<IntensityValue("LFQ intensity 1", a.lfq)>>)]

\* the items _process_ibaq_with_precise_mapping appends for one sample
IbaqItems(a, sample) ==
  (IF a.ibaq.t = "num"
   THEN <<AdditionalItem(sample, ChannelOf(a.sdrf, sample),
                         <<IntensityValue("iBAQ", a.ibaq)>>)>>
   ELSE <<>>)
  \o
  (IF Positive(a.ibaq1)
   THEN <<AdditionalItem(sample, ChannelOf(a.sdrf, sample),
                         <<IntensityValue("iBAQ 1", a.ibaq1)>>)>>
   ELSE <<>>)

RECURSIVE ConcatAll(_)
ConcatAll(qs) == IF qs = <<>> THEN <<>> ELSE Head(qs) \o ConcatAll(Tail(qs))

\* _process_ibaq_pg_intensities
process_ibaq_pg_intensities(a, order) ==
  IF ~IdMapped(a) THEN <<>>
  ELSE ConcatAll([i \in 1..Len(order) |-> IbaqItems(a, order[i])])

\* the standardized entry is appended: both values present, not both NaN
HasStandardized(a) ==
  /\ a.hasId
  /\ a.std.has
  /\ ~(a.std.total = Null /\ a.std.top3 = Null)

\* sample_accession = next(iter(sample_accessions)), else the reference file
standardized_sample(a, reference_file_name, order) ==
  IF IdMapped(a) THEN order[1] ELSE reference_file_name

StandardizedItem(a, reference_file_name, order) ==
  LET s == standardized_sample(a, reference_file_name, order)
  IN AdditionalItem(s,
                    IF IdMapped(a) THEN ChannelOf(a.sdrf, s) ELSE DefaultChannel,
                    <<IntensityValue("total_all_peptides_intensity", a.std.total),
                      IntensityValue("top3_intensity", a.std.top3)>>)

\* one iteration of the row loop of _process_pg_intensities
process_pg_intensities(a, order) ==
  LET sample_intensities == process_sample_specific_pg_intensities(a, order)
      reference_file_name ==
        IF sample_intensities = <<>> THEN DefaultReferenceFile
        ELSE ReferenceFileForSample(a.sdrf, sample_intensities[1].sample_accession)
      additional == process_lfq_pg_intensities(a, order)
                    \o process_ibaq_pg_intensities(a, order)
  IN [done |-> TRUE,
      intensities |-> sample_intensities,
      additional_intensities |->
        IF HasStandardized(a)
        THEN Append(additional, StandardizedItem(a, reference_file_name, order))
        ELSE additional,
      reference_file_name |-> reference_file_name]

NoRowResult ==
  [done |-> FALSE, intensities |-> <<>>, additional_intensities |-> <<>>,
   reference_file_name |-> DefaultReferenceFile]

PgIntensityArgs ==
  [loaded : BOOLEAN, map : PgMappings, hasId : BOOLEAN, id : {"5"},
   sdrf : BOOLEAN,
   intensity : {Null, Num(0), Num(30)},
   lfq : {Num(0), Num(20)},
   ibaq : {Absent, Num(4)},
   ibaq1 : {Absent, Num(6)},
   std : {[has |-> FALSE, total |-> Null, top3 |-> Null],
          [has |-> TRUE, total |-> Null, top3 |-> Null],
          [has |-> TRUE, total |-> Num(10), top3 |-> Num(8)]}]

InitPgIntensity ==
  /\ kind = "pg"
  /\ pc = "pgint_run1"
  /\ fnArg \in PgIntensityArgs
  /\ fnRet = <<NoRowResult, NoRowResult>>
  /\ NoProcess

\* the iteration orders a process may see for the samples of the row's group
SampleOrders(a) == IF IdMapped(a) THEN ListsOf(a.map[a.id]) ELSE {<<>>}

ProcessPgIntensitiesRun1 ==
  /\ pc = "pgint_run1"
  /\ pc' = "pgint_run2"
  /\ \E order \in SampleOrders(fnArg) :
       fnRet' = [fnRet EXCEPT ![1] = process_pg_intensities(fnArg, order)]
  /\ UNCHANGED <<kind, fnArg, processVars>>

ProcessPgIntensitiesRun2 ==
  /\ pc = "pgint_run2"
  /\ pc' = "pgint_done"
  /\ \E order \in SampleOrders(fnArg) :
       fnRet' = [fnRet EXCEPT ![2] = process_pg_intensities(fnArg, order)]
  /\ UNCHANGED <<kind, fnArg, processVars>>

NextPgIntensity == ProcessPgIntensitiesRun1 \/ ProcessPgIntensitiesRun2

SpecPgIntensity == InitPgIntensity /\ [][NextPgIntensity]_vars

IsLfqOrIbaq(item) ==
  item.intensities[1].intensity_name \in {"LFQ intensity 1", "iBAQ", "iBAQ 1"}

\* C26: a processed row whose id is not in the mapping (no mapping loaded,
\* no id column, or id not a key) has an empty intensities list and no LFQ
\* or iBAQ item among its additional intensities; a row whose id is mapped
\* and whose general intensity is > 0 has exactly one intensities entry for
\* each sample of its group, carrying the general intensity.
C26_SampleEntriesFollowMapping ==
  \A r \in 1..2 :
    fnRet[r].done =>
      /\ ~IdMapped(fnArg) =>
           /\ fnRet[r].intensities = <<>>
           /\ \A i \in 1..Len(fnRet[r].additional_intensities) :
                ~IsLfqOrIbaq(fnRet[r].additional_intensities[i])
      /\ (IdMapped(fnArg) /\ Positive(fnArg.intensity)) =>
           /\ Len(fnRet[r].intensities) = Cardinality(fnArg.map[fnArg.id])
           /\ {e.sample_accession : e \in Range(fnRet[r].intensities)} = fnArg.map[fnArg.id]
           /\ \A e \in Range(fnRet[r].intensities) : e.intensity = fnArg.intensity.n

\* a mapped row with two samples and a positive intensity was processed
C26_Witness ==
  /\ fnRet[1].done
  /\ IdMapped(fnArg)
  /\ Cardinality(fnArg.map[fnArg.id]) = 2
  /\ Positive(fnArg.intensity)
  /\ Len(fnRet[1].intensities) = 2

StandardizedItems(res) ==
  {item \in Range(res.additional_intensities) : Len(item.intensities) = 2}

\* C29 as claimed: two runs over the same row attach the same sample
\* accession and channel to the standardized entry.
C29_StandardizedSampleDeterministic ==
  (fnRet[1].done /\ fnRet[2].done) =>
    \A x \in StandardizedItems(fnRet[1]), y \in StandardizedItems(fnRet[2]) :
      x.sample_accession = y.sample_accession /\ x.channel = y.channel

(***************************************************************************)
(* MaxQuant._process_tmt_intensities, one row.  The row has the columns    *)
(* "Reporter intensity k" for k = first .. first + n - 1, where first is 0 *)
(* or 1 and n the number of channels; a column may also be missing.        *)
(***************************************************************************)
MaxChannels == 3

ReporterCells == {Absent, Null, Num(0), Num(1), Num(2)}

TmtArgs ==
  UNION { [first : {f}, channels : {n},
           reporter : [f..(f + n - 1) -> ReporterCells]] :
          <<f, n>> \in {0, 1} \X (1..MaxChannels) }

\* "col in row.index" for the column "Reporter intensity k"
InRowIndex(a, k) == k \in DOMAIN a.reporter /\ a.reporter[k] # Absent

\* reporter_col of the channel at position i: the first of the columns
\* i and i + 1 that the row has, -1 for None
reporter_col(a, i) ==
  IF InRowIndex(a, i) THEN i
  ELSE IF InRowIndex(a, i + 1) THEN i + 1
  ELSE -1

\* the entry appended for the channel at position i, if any
TmtEntries(a, i) ==
  LET col == reporter_col(a, i)
  IN IF col # -1 /\ Positive(a.reporter[col])
     THEN <<[channel |-> i, reporter_col |-> col, intensity |-> a.reporter[col].n]>>
     ELSE <<>>

process_tmt_intensities(a) ==
  ConcatAll([k \in 1..a.channels |-> TmtEntries(a, k - 1)])

InitTmt ==
  /\ kind = "feature"
  /\ pc = "tmt_call"
  /\ fnArg \in TmtArgs
  /\ fnRet = <<>>
  /\ NoProcess

ProcessTmtIntensities ==
  /\ pc = "tmt_call"
  /\ pc' = "tmt_done"
  /\ fnRet' = process_tmt_intensities(fnArg)
  /\ UNCHANGED <<kind, fnArg, processVars>>

NextTmt == ProcessTmtIntensities

SpecTmt == InitTmt /\ [][NextTmt]_vars

\* the column of the channel at position i under the row's numbering
OwnColumn(a, i) == a.first + i

\* C27 as claimed: the intensities list has one entry for each channel whose
\* own reporter column is present and > 0, in channel order, carrying the
\* value of that column, and no two entries are taken from the same column.
C27_ChannelsReadOwnColumn ==
  pc = "tmt_done" =>
    LET a == fnArg
        live == {i \in 0..(a.channels - 1) :
                   InRowIndex(a, OwnColumn(a, i)) /\ Positive(a.reporter[OwnColumn(a, i)])}
    IN /\ {e.channel : e \in Range(fnRet)} = live
       /\ Len(fnRet) = Cardinality(live)
       /\ \A e \in Range(fnRet) :
            /\ e.reporter_col = OwnColumn(a, e.channel)
            /\ e.intensity = a.reporter[OwnColumn(a, e.channel)].n
       /\ \A i, j \in 1..Len(fnRet) :
            i # j => fnRet[i].reporter_col # fnRet[j].reporter_col
====
